---------------------------- MODULE Spec2Model ----------------------------
(***************************************************************************)
(* A model of polars-mas: the per-task association procedure               *)
(* (analysis.py), the task grid and batch collection of run_associations,  *)
(* and the snapshot lifetime of run_pipeline (pipeline.py).                *)
(*                                                                         *)
(* Encodings.  Dataset cells are small naturals, a null cell is NULL.      *)
(* Floats are naturals, float("nan") is NaN.  A result row (the Python     *)
(* dict output_schema) is a function from field names to values.  A data   *)
(* frame is a record [cols |-> <<names>>, rows |-> <<row>>] where a row is *)
(* a function from the column names to cells.                              *)
(***************************************************************************)
EXTENDS Integers, Sequences, FiniteSets, TLC

VARIABLES
    \* ---- the configuration (MASConfig fields read by analysis.py)
    config,
    \* ---- the shared, preprocessed dataset (lf / the snapshot's content)
    data,
    \* ---- run_pipeline
    pc,              \* position of run_pipeline
    ipc_exists,      \* os.path.exists(config.ipc_file)
    atexit_handlers, \* number of _cleanup_ipc registrations pending at exit
    log,             \* the log records that matter, in order
    exc,             \* the exception in flight / propagated to the caller
    cleanups,        \* one entry per _cleanup_ipc call made so far
    \* ---- run_associations
    tasks,           \* result_lazyframes: the (predictor, dependent) pairs
    batch_start,     \* i of the batch loop
    collected,       \* per task of the current batch: its one-row frame
    all_results,     \* all_results
    result_combined, \* the table run_associations returned
    dispatched,      \* how many task frames have been evaluated so far
    \* ---- a single call of _run_single_association (TaskSpec)
    task_df,         \* the projected frame handed to the call
    task_out         \* what the call did

vars == <<config, data, pc, ipc_exists, atexit_handlers, log, exc, cleanups,
          tasks, batch_start, collected, all_results, result_combined,
          dispatched, task_df, task_out>>

---------------------------------------------------------------------------
\* Bounds of the model.

\* columns of the input file whose specifiers are resolved (ResolveSpec)
NumColumns == 3
\* entries of one column specifier (ResolveSpec)
MaxEntries == 2

\* rows of a frame handed to one task (TaskSpec)
MaxRows == 2
\* config.min_case_count ranges over 0..MaxMinCount
MaxMinCount == 2
\* number of predictor columns of a run (Spec)
NumPredictors == 2
MaxGroups == 12

---------------------------------------------------------------------------
\* Encoded program constants.

NULL == -1
NaN == -2
CountSentinel == -9
MaxBatch == 100
MinBatch == 10
BatchDivisor == 10

None == [py_none |-> TRUE]

Models == {"firth", "logistic", "linear"}

\* p-values a fit can report, and messages a solver can raise
SolverPvals == {1, 2}
SolverMessages == {"Singular matrix"}

---------------------------------------------------------------------------
\* Python / polars helpers.

\* dict.update
Update(d, u) ==
    [k \in (DOMAIN d) \cup (DOMAIN u) |-> IF k \in DOMAIN u THEN u[k] ELSE d[k]]

SeqToSet(s) == {s[i] : i \in 1..Len(s)}

\* [x for x in s if Keep(x)]
RECURSIVE FilterSeq(_, _)
FilterSeq(s, keep) ==
    IF s = <<>> THEN <<>>
    ELSE IF Head(s) \in keep THEN <<Head(s)>> \o FilterSeq(Tail(s), keep)
         ELSE FilterSeq(Tail(s), keep)

\* ' + '.join(names)
RECURSIVE JoinPlus(_)
JoinPlus(names) ==
    IF names = <<>> THEN ""
    ELSE IF Len(names) = 1 THEN names[1]
         ELSE names[1] \o " + " \o JoinPlus(Tail(names))

\* DataFrame.height
Height(df) == Len(df.rows)

\* LazyFrame.select(columns): the projection, in the order asked for
Select(df, columns) ==
    [cols |-> columns,
     rows |-> [i \in 1..Len(df.rows) |-> [c \in SeqToSet(columns) |-> df.rows[i][c]]]]

\* DataFrame.drop(columns)
Drop(df, columns) ==
    Select(df, FilterSeq(df.cols, SeqToSet(df.cols) \ columns))

RECURSIVE KeepRows(_, _)
KeepRows(rows, subset) ==
    IF rows = <<>> THEN <<>>
    ELSE IF \A c \in subset : Head(rows)[c] # NULL
         THEN <<Head(rows)>> \o KeepRows(Tail(rows), subset)
         ELSE KeepRows(Tail(rows), subset)

\* DataFrame.drop_nulls(subset)
DropNulls(df, subset) == [cols |-> df.cols, rows |-> KeepRows(df.rows, subset)]

\* pl.col(c).sum(): nulls are skipped, the sum of nothing is 0
RECURSIVE SumRows(_, _)
SumRows(rows, c) ==
    IF rows = <<>> THEN 0
    ELSE (IF Head(rows)[c] = NULL THEN 0 ELSE Head(rows)[c]) + SumRows(Tail(rows), c)

ColSum(df, c) == SumRows(df.rows, c)

\* pl.col(c).n_unique(): the number of distinct values, null counted as one
NUnique(df, c) == Cardinality({df.rows[i][c] : i \in 1..Len(df.rows)})


---------------------------------------------------------------------------
\* analysis.py: the per-task procedure.

\* _get_schema(config, for_polars=False): the sentinel default record
GetSchema(cfg) ==
    IF cfg.model = "firth" \/ cfg.model = "logistic" THEN
        [predictor |-> "nan", dependent |-> "nan", pval |-> NaN, beta |-> NaN,
         se |-> NaN, OR |-> NaN, ci_low |-> NaN, ci_high |-> NaN,
         cases |-> CountSentinel, controls |-> CountSentinel,
         total_n |-> CountSentinel, converged |-> FALSE,
         failed_reason |-> "nan", equation |-> "nan"]
    ELSE IF cfg.model = "linear" THEN
        [predictor |-> "nan", dependent |-> "nan", pval |-> NaN, beta |-> NaN,
         se |-> NaN, ci_low |-> NaN, ci_high |-> NaN,
         cases |-> CountSentinel, converged |-> FALSE,
         failed_reason |-> "nan", equation |-> "nan"]
    ELSE None

\* _get_schema(config) with for_polars=True: the field names of the struct
\* that _perform_analysis declares as the schema of the task's frame
GetSchemaFields(cfg) ==
    IF cfg.model = "firth" \/ cfg.model = "logistic" THEN
        {"predictor", "dependent", "pval", "beta", "se", "OR", "ci_low", "ci_high",
         "cases", "controls", "total_n", "converged", "failed_reason", "equation"}
    ELSE IF cfg.model = "linear" THEN
        {"predictor", "dependent", "pval", "beta", "se", "ci_low", "ci_high",
         "n_observations", "converged", "failed_reason", "equation"}
    ELSE {}

\* a check that looks at the controls before the cases
CheckCaseCountsControlsFirst(struct_dataframe, dependent, min_case_count) ==
    LET n_rows == Height(struct_dataframe)
        case_count == ColSum(struct_dataframe, dependent)
        controls_count == n_rows - case_count
        message ==
            IF controls_count < min_case_count THEN
                "Insufficient control count (" \o ToString(controls_count) \o " controls)."
            ELSE IF case_count < min_case_count THEN
                "Insufficient case count (" \o ToString(case_count) \o " cases)."
            ELSE IF case_count = n_rows THEN "All observations are cases."
            ELSE ""
    IN  [is_viable |-> message = "", message |-> message, case_count |-> case_count,
         controls_count |-> controls_count, total_n |-> n_rows]

\* a check without the final all-cases branch
CheckCaseCountsNoAllCases(struct_dataframe, dependent, min_case_count) ==
    LET n_rows == Height(struct_dataframe)
        case_count == ColSum(struct_dataframe, dependent)
        controls_count == n_rows - case_count
        message ==
            IF case_count < min_case_count THEN
                "Insufficient case count (" \o ToString(case_count) \o " cases)."
            ELSE IF controls_count < min_case_count THEN
                "Insufficient control count (" \o ToString(controls_count) \o " controls)."
            ELSE ""
    IN  [is_viable |-> message = "", message |-> message, case_count |-> case_count,
         controls_count |-> controls_count, total_n |-> n_rows]

\* _check_case_counts: (is_viable, message, case_count, controls_count, n_rows)
CheckCaseCounts(struct_dataframe, dependent, min_case_count) ==
    LET n_rows == Height(struct_dataframe)
        case_count == ColSum(struct_dataframe, dependent)
        controls_count == n_rows - case_count
        message ==
            IF case_count < min_case_count THEN
                "Insufficient case count (" \o ToString(case_count) \o " cases)."
            ELSE IF controls_count < min_case_count THEN
                "Insufficient control count (" \o ToString(controls_count) \o " controls)."
            ELSE IF case_count = n_rows THEN "All observations are cases."
            ELSE ""
    IN  [is_viable |-> message = "", message |-> message, case_count |-> case_count,
         controls_count |-> controls_count, total_n |-> n_rows]

\* _validate_data_structure: the updated output_schema
ValidateDataStructure(df, predictor, dependent, cfg, output_schema) ==
    IF Height(df) = 0 THEN
        Update(output_schema,
               [predictor |-> predictor, dependent |-> dependent,
                failed_reason |-> "No data after dropping nulls."])
    ELSE IF ~cfg.quantitative THEN
        LET chk == CheckCaseCounts(df, dependent, cfg.min_case_count)
        IN  IF ~chk.is_viable THEN
                Update(output_schema,
                       [predictor |-> predictor, dependent |-> dependent,
                        failed_reason |-> chk.message])
            ELSE
                Update(output_schema,
                       [cases |-> chk.case_count, controls |-> chk.controls_count,
                        total_n |-> chk.total_n])
    ELSE
        IF Height(df) < cfg.min_case_count THEN
            Update(output_schema,
                   [predictor |-> predictor, dependent |-> dependent,
                    failed_reason |->
                        "Not enough observations (" \o ToString(Height(df)) \o ")."])
        ELSE Update(output_schema, [n_observations |-> Height(df)])

DropConstantCovariatesInPlace(df, cfg) ==
    IF cfg.covariate_columns = <<>> THEN
        [raised |-> TRUE, df |-> df, covariate_columns |-> cfg.covariate_columns]
    ELSE
        LET constant_covariates ==
                {c \in SeqToSet(cfg.covariate_columns) : NUnique(df, c) <= 1}
        IN  [raised |-> FALSE,
             df |-> IF constant_covariates # {} THEN Drop(df, constant_covariates)
                    ELSE df,
             covariate_columns |->
                 FilterSeq(cfg.covariate_columns,
                           SeqToSet(cfg.covariate_columns) \ constant_covariates)]

\* _drop_constant_covariates.  unique_counts is the to_dicts() of a selection
\* of the covariates' n_unique; with no covariate column the selection has no
\* column and no row, to_dicts() is [] and unique_counts[0] raises IndexError.
\* The result holds the frame returned (df.drop gives a new frame) and
\* config.covariate_columns as the call leaves it: the constant covariates
\* are gathered in a list of the function's own.
DropConstantCovariates(df, cfg) ==
    IF cfg.covariate_columns = <<>> THEN
        [raised |-> TRUE, df |-> df, covariate_columns |-> cfg.covariate_columns]
    ELSE
        LET constant_covariates ==
                {c \in SeqToSet(cfg.covariate_columns) : NUnique(df, c) <= 1}
        IN  [raised |-> FALSE,
             df |-> IF constant_covariates # {} THEN Drop(df, constant_covariates)
                    ELSE df,
             covariate_columns |-> cfg.covariate_columns]

\* what one call of _run_single_association did
NoCall == [called |-> FALSE, design |-> <<>>, X_rows |-> <<>>, y |-> <<>>,
           outcome |-> None]
Returned(row, call) == [kind |-> "row", row |-> row, exc |-> None, call |-> call]
Raised(type, msg) ==
    [kind |-> "raise", row |-> None, exc |-> [type |-> type, msg |-> msg],
     call |-> NoCall]

\* an except branch that logs the error and forgets to record the reason
TrySolverDropsReason(output_schema, predictor, dependent, equation, solve) ==
    IF solve.ok THEN
        Update(output_schema,
               Update([predictor |-> predictor, dependent |-> dependent,
                       equation |-> equation], solve.results))
    ELSE
        Update(output_schema,
               [predictor |-> predictor, dependent |-> dependent,
                equation |-> equation])

\* the try block of _run_single_association: reg_func(X, y) returned
\* solve.results or raised an exception with message solve.msg
TrySolver(output_schema, predictor, dependent, equation, solve) ==
    IF solve.ok THEN
        Update(output_schema,
               Update([predictor |-> predictor, dependent |-> dependent,
                       equation |-> equation], solve.results))
    ELSE
        Update(output_schema,
               [predictor |-> predictor, dependent |-> dependent,
                equation |-> equation, failed_reason |-> solve.msg])

\* _run_single_association(df, predictor, dependent, config, output_schema),
\* given the outcome `solve` of the regression function should it be called
RunSingleAssociation(df, predictor0, dependent0, cfg, output_schema0, solve) ==
    IF cfg.model \notin Models THEN
        Raised("ValueError", "Model '" \o cfg.model \o "' is not supported.")
    ELSE
    LET output_schema ==
            ValidateDataStructure(df, predictor0, dependent0, cfg, output_schema0)
    IN  IF output_schema["failed_reason"] # "nan" THEN Returned(output_schema, NoCall)
        ELSE
        LET df1 == DropNulls(df, {predictor0, dependent0})
            dropped == DropConstantCovariates(df1, cfg)
        IN  IF dropped.raised THEN Raised("IndexError", "list index out of range")
            ELSE
            LET df2 == dropped.df
                col_names == df2.cols
                predictor == col_names[1]
                dependent == col_names[2]
                covariates == FilterSeq(col_names, SeqToSet(col_names) \ {predictor, dependent})
                equation == dependent \o " ~ " \o predictor \o " + " \o JoinPlus(covariates)
                X == Select(df2, <<predictor>> \o covariates)
                y == [i \in 1..Height(df2) |-> df2.rows[i][dependent]]
            IN  Returned(TrySolver(output_schema, predictor, dependent, equation, solve),
                         [called |-> TRUE, design |-> X.cols, X_rows |-> X.rows, y |-> y,
                          outcome |-> solve])

\* what reg_func can do: firth_regression and logistic_regression report an
\* odds ratio, linear_regression does not (models.py)
SolverResults(model) ==
    IF model = "linear" THEN
        {[pval |-> p, beta |-> 1, se |-> 1, ci_low |-> 0, ci_high |-> 2] : p \in SolverPvals}
    ELSE
        {[pval |-> p, beta |-> 1, se |-> 1, OR |-> 3, ci_low |-> 0, ci_high |-> 2] :
            p \in SolverPvals}

SolverOutcomes(model) ==
    {[ok |-> TRUE, results |-> r, msg |-> ""] : r \in SolverResults(model)}
    \cup {[ok |-> FALSE, results |-> None, msg |-> m] : m \in SolverMessages}

\* _perform_analysis: the lazy frame of one task, evaluated.  The projection
\* lf.select([predictor, dependent, *covariates]) is handed to
\* _run_single_association together with a fresh sentinel record.
ProjectTask(lf, predictor, dependent, cfg) ==
    Select(lf, <<predictor, dependent>> \o cfg.covariate_columns)

AssociationSchemaShared(cfg, others) ==
    IF others = {} THEN GetSchema(cfg) ELSE CHOOSE row \in others : TRUE

\* association_schema = _get_schema(config, for_polars=False): a dict made
\* anew for the task, whatever rows the other tasks have written
AssociationSchema(cfg, others) == GetSchema(cfg)

\* the task evaluated when the other tasks have returned the rows others
PerformAnalysisAmong(lf, predictor, dependent, cfg, others, solve) ==
    RunSingleAssociation(ProjectTask(lf, predictor, dependent, cfg),
                         predictor, dependent, cfg,
                         AssociationSchema(cfg, others), solve)

PerformAnalysis(lf, predictor, dependent, cfg, solve) ==
    PerformAnalysisAmong(lf, predictor, dependent, cfg, {}, solve)

\* the configuration as the evaluation of the task leaves it: the task
\* reads config, and hands it to _drop_constant_covariates once the frame
\* has passed validation
ConfigAfterTask(lf, predictor, dependent, cfg) ==
    LET df == ProjectTask(lf, predictor, dependent, cfg)
    IN  IF cfg.model \notin Models THEN cfg
        ELSE IF ValidateDataStructure(df, predictor, dependent, cfg,
                                      GetSchema(cfg))["failed_reason"] # "nan"
        THEN cfg
        ELSE [cfg EXCEPT !.covariate_columns =
                  DropConstantCovariates(DropNulls(df, {predictor, dependent}),
                                         cfg).covariate_columns]

---------------------------------------------------------------------------
\* TaskSpec: one call of the per-task procedure on every small frame.

\* Cells.  The procedure reads a predictor cell only for nullness, sums the
\* dependent, and counts the distinct values of a covariate.
CellsOf(c) == IF c = "p1" THEN {NULL, 1} ELSE {NULL, 0, 1}

RowTypes(cols) == {r \in [SeqToSet(cols) -> {NULL, 0, 1}] :
                      \A c \in SeqToSet(cols) : r[c] \in CellsOf(c)}

RECURSIVE RowRank(_, _)
RowRank(r, cols) ==
    IF cols = <<>> THEN 0 ELSE (r[Head(cols)] + 1) + 3 * RowRank(r, Tail(cols))

\* The frames of n rows; no operation of the procedure depends on the order of
\* the rows, so one order per multiset of rows is drawn.
FramesOf(cols, n) ==
    {[cols |-> cols, rows |-> rs] :
        rs \in {s \in [1..n -> RowTypes(cols)] :
                   \A i \in 1..(n - 1) : RowRank(s[i], cols) <= RowRank(s[i + 1], cols)}}

Frames(cols) == UNION {FramesOf(cols, n) : n \in 0..MaxRows}

EmptyFrame == [cols |-> <<>>, rows |-> <<>>]
NoOutcome == [kind |-> "none", row |-> None, exc |-> None, call |-> NoCall]

\* the fields of the model that a specification leaves alone
PipelineIdle ==
    /\ ipc_exists = FALSE
    /\ atexit_handlers = 0
    /\ log = <<>>
    /\ exc = None
    /\ cleanups = <<>>

RunIdle ==
    /\ tasks = <<>>
    /\ batch_start = 0
    /\ collected = <<>>
    /\ all_results = <<>>
    /\ result_combined = None
    /\ dispatched = 0

TaskInit ==
    /\ \E covs \in {<<>>, <<"c1">>} :
       \E m \in Models \cup {"probit"} :
       \E q \in BOOLEAN :
       \E k \in 0..MaxMinCount :
            config = [model |-> m, quantitative |-> q, min_case_count |-> k,
                      predictor_columns |-> <<"p1">>,
                      dependent_columns |-> <<"d1">>,
                      covariate_columns |-> covs, ipc_file |-> ""]
    /\ data \in Frames(<<"p1", "d1">> \o config.covariate_columns)
    /\ pc = "task"
    /\ task_df = EmptyFrame
    /\ task_out = NoOutcome
    /\ PipelineIdle
    /\ RunIdle

\* the lazy frame of the task (p1, d1) is evaluated
TaskRun ==
    /\ pc = "task"
    /\ \E solve \in SolverOutcomes(config.model) :
        /\ task_out' = PerformAnalysis(data, "p1", "d1", config, solve)
        /\ task_df' = ProjectTask(data, "p1", "d1", config)
    /\ pc' = "task_done"
    /\ config' = ConfigAfterTask(data, "p1", "d1", config)
    /\ UNCHANGED <<data, ipc_exists, atexit_handlers, log, exc, cleanups,
                   tasks, batch_start, collected, all_results, result_combined,
                   dispatched>>

TaskNext == TaskRun

TaskSpec == TaskInit /\ [][TaskNext]_vars

---------------------------------------------------------------------------
\* analysis.py: run_associations.

Min(a, b) == IF a <= b THEN a ELSE b
Max(a, b) == IF a >= b THEN a ELSE b

\* a grid that runs over the dependents in the outer loop
TaskGridDependentMajor(predictors, dependents) ==
    [k \in 1..(Len(predictors) * Len(dependents)) |->
        [predictor |-> predictors[((k - 1) % Len(predictors)) + 1],
         dependent |-> dependents[((k - 1) \div Len(predictors)) + 1]]]

\* the nested loop of run_associations: for predictor ... for dependent ...
TaskGrid(predictors, dependents) ==
    [k \in 1..(Len(predictors) * Len(dependents)) |->
        [predictor |-> predictors[((k - 1) \div Len(dependents)) + 1],
         dependent |-> dependents[((k - 1) % Len(dependents)) + 1]]]

\* batch_size = min(100, max(10, num_groups // 10))
BatchSize(num_groups) == Min(MaxBatch, Max(MinBatch, num_groups \div BatchDivisor))

BatchOfWholeList(i, n) == {j \in 1..n : i < j}

\* the indices (1-based) of result_lazyframes[i : i + batch_size]
BatchOf(i, n) == {j \in 1..n : i < j /\ j <= i + BatchSize(n)}

\* pl.concat(frames, how="diagonal_relaxed") of one-row frames: the union of
\* the columns, a row's missing columns filled with null
Concat(rows) ==
    LET fields == UNION {DOMAIN rows[i] : i \in 1..Len(rows)}
    IN  [i \in 1..Len(rows) |->
            [f \in fields |-> IF f \in DOMAIN rows[i] THEN rows[i][f] ELSE NULL]]

\* the order of DataFrame.sort on a float column: NaN is the greatest value
FloatLe(a, b) == b = NaN \/ (a # NaN /\ a <= b)

\* the orders of the row indices S in which the p-values do not decrease
RECURSIVE SortedOrders(_, _)
SortedOrders(table, S) ==
    IF S = {} THEN {<<>>}
    ELSE UNION {{<<i>> \o t : t \in SortedOrders(table, S \ {i})} :
                    i \in {j \in S : \A k \in S : FloatLe(table[j].pval, table[k].pval)}}

\* DataFrame.sort("pval"): maintain_order is not asked for, so rows of equal
\* p-value come in any order
SortByPval(table) ==
    {[k \in 1..Len(table) |-> table[o[k]]] : o \in SortedOrders(table, 1..Len(table))}

---------------------------------------------------------------------------
\* pipeline.py: run_pipeline and _cleanup_ipc.

\* _cleanup_ipc(config), called from `caller`; os.unlink succeeds or raises
\* OSError, which is logged and swallowed
CleanupIpc(caller, unlink_ok) ==
    /\ IF config.ipc_file # "" /\ ipc_exists THEN
            IF unlink_ok THEN
                /\ ipc_exists' = FALSE
                /\ log' = Append(log, "Cleaned up IPC file")
            ELSE
                /\ ipc_exists' = ipc_exists
                /\ log' = Append(log, "Failed to clean up IPC file")
       ELSE UNCHANGED <<ipc_exists, log>>
    /\ cleanups' = Append(cleanups, [caller |-> caller, existed |-> ipc_exists])

\* the locals of run_associations are gone once it returned or raised
LocalsDropped ==
    /\ tasks' = <<>>
    /\ batch_start' = 0
    /\ collected' = <<>>
    /\ all_results' = <<>>
    /\ result_combined' = None

LocalsUnchanged ==
    UNCHANGED <<tasks, batch_start, collected, all_results, result_combined>>

\* what _cleanup_ipc can find after write_temp_ipc(data, config) returned:
\* no path in config.ipc_file, a path without a file, or a path with its file
IpcOutcomes ==
    {[ipc_file |-> "", exists |-> FALSE],
     [ipc_file |-> "snapshot.arrow", exists |-> FALSE],
     [ipc_file |-> "snapshot.arrow", exists |-> TRUE]}

\* run_pipeline up to the try block: preprocessing, write_temp_ipc and the
\* atexit registration
Preprocess ==
    /\ pc = "start"
    /\ \E w \in IpcOutcomes :
            /\ config' = [config EXCEPT !.ipc_file = w.ipc_file]
            /\ ipc_exists' = w.exists
    /\ atexit_handlers' = atexit_handlers + 1
    /\ pc' = "run_associations"
    /\ LocalsUnchanged
    /\ UNCHANGED <<data, log, exc, cleanups, dispatched, task_df, task_out>>

\* run_associations, lines 14-34: the lazy frame of every pair is built
GenerateTasks ==
    /\ pc = "run_associations"
    /\ LET grid == TaskGrid(config.predictor_columns, config.dependent_columns)
       IN  /\ tasks' = grid
           /\ collected' = [k \in 1..Len(grid) |-> NoOutcome]
           /\ IF grid = <<>> THEN
                  /\ log' = Append(log, "No valid analyses were performed.")
                  /\ result_combined' = <<>>
                  /\ pc' = "postprocess"
              ELSE
                  /\ log' = log
                  /\ result_combined' = result_combined
                  /\ pc' = "collect"
    /\ UNCHANGED <<config, data, ipc_exists, atexit_handlers, exc, cleanups,
                   batch_start, all_results, dispatched, task_df, task_out>>

\* pl.collect_all(batch) evaluates one frame of the batch; the frames of a
\* batch are evaluated in any order.  An exception of the frame leaves
\* collect_all and run_associations.
RunTask(i) ==
    /\ pc = "collect"
    /\ i \in BatchOf(batch_start, Len(tasks))
    /\ collected[i].kind = "none"
    /\ \E solve \in SolverOutcomes(config.model) :
        LET others == {collected[k].row :
                          k \in {j \in 1..Len(collected) : collected[j].kind = "row"}}
            out == PerformAnalysisAmong(data, tasks[i].predictor, tasks[i].dependent,
                                        config, others, solve)
        IN  IF out.kind = "row" THEN
                /\ collected' = [collected EXCEPT ![i] = out]
                /\ UNCHANGED <<pc, exc, tasks, batch_start, all_results, result_combined>>
            ELSE
                /\ pc' = "except"
                /\ exc' = out.exc
                /\ LocalsDropped
    /\ dispatched' = dispatched + 1
    /\ config' = ConfigAfterTask(data, tasks[i].predictor, tasks[i].dependent, config)
    /\ UNCHANGED <<data, ipc_exists, atexit_handlers, log, cleanups,
                   task_df, task_out>>

\* the batch is complete: all_results.extend(results); after the last batch
\* the frames are concatenated, sorted by pval and returned
CollectBatch ==
    /\ pc = "collect"
    /\ \A i \in BatchOf(batch_start, Len(tasks)) : collected[i].kind = "row"
    /\ LET batch == BatchOf(batch_start, Len(tasks))
           results == [k \in 1..Cardinality(batch) |-> collected[batch_start + k].row]
       IN  /\ all_results' = all_results \o results
           /\ IF batch_start + BatchSize(Len(tasks)) < Len(tasks) THEN
                  /\ batch_start' = batch_start + BatchSize(Len(tasks))
                  /\ UNCHANGED <<pc, result_combined>>
              ELSE
                  /\ result_combined' \in SortByPval(Concat(all_results \o results))
                  /\ pc' = "postprocess"
                  /\ UNCHANGED batch_start
    /\ UNCHANGED <<config, data, ipc_exists, atexit_handlers, log, exc, cleanups,
                   tasks, collected, dispatched, task_df, task_out>>

\* postprocess(results, config) and print(results): postprocess returns, or
\* raises an exception
Postprocess ==
    /\ pc = "postprocess"
    /\ \/ /\ pc' = "finally"
          /\ exc' = exc
       \/ /\ pc' = "except"
          /\ exc' = [type |-> "Exception", msg |-> "postprocess failed"]
    /\ LocalsDropped
    /\ UNCHANGED <<config, data, ipc_exists, atexit_handlers, log, cleanups,
                   dispatched, task_df, task_out>>

\* a KeyboardInterrupt arrives inside the try block
Interrupt ==
    /\ pc \in {"run_associations", "collect", "postprocess"}
    /\ pc' = "except_interrupt"
    /\ exc' = [type |-> "KeyboardInterrupt", msg |-> ""]
    /\ LocalsDropped
    /\ UNCHANGED <<config, data, ipc_exists, atexit_handlers, log, cleanups,
                   dispatched, task_df, task_out>>

\* a handler that treats the interrupt like any other failure
ExceptKeyboardInterruptReraises ==
    /\ pc = "except_interrupt"
    /\ log' = Append(log, "Analysis failed: " \o exc.msg)
    /\ exc' = exc
    /\ pc' = "finally"
    /\ LocalsUnchanged
    /\ UNCHANGED <<config, data, ipc_exists, atexit_handlers, cleanups,
                   dispatched, task_df, task_out>>

\* except KeyboardInterrupt: the interrupt is logged and not re-raised
ExceptKeyboardInterrupt ==
    /\ pc = "except_interrupt"
    /\ log' = Append(log, "Analysis interrupted by user.")
    /\ exc' = None
    /\ pc' = "finally"
    /\ LocalsUnchanged
    /\ UNCHANGED <<config, data, ipc_exists, atexit_handlers, cleanups,
                   dispatched, task_df, task_out>>

\* a handler without the bare raise: the failure is logged and swallowed
ExceptExceptionSwallows ==
    /\ pc = "except"
    /\ log' = Append(log, "Analysis failed: " \o exc.msg)
    /\ exc' = None
    /\ pc' = "finally"
    /\ LocalsUnchanged
    /\ UNCHANGED <<config, data, ipc_exists, atexit_handlers, cleanups,
                   dispatched, task_df, task_out>>

\* except Exception as e: the failure is logged and re-raised
ExceptException ==
    /\ pc = "except"
    /\ log' = Append(log, "Analysis failed: " \o exc.msg)
    /\ exc' = exc
    /\ pc' = "finally"
    /\ LocalsUnchanged
    /\ UNCHANGED <<config, data, ipc_exists, atexit_handlers, cleanups,
                   dispatched, task_df, task_out>>

\* a cleanup that sits at the end of the try body instead of in finally
FinallySkipsCleanupOnError ==
    /\ pc = "finally"
    /\ IF exc = None THEN \E unlink_ok \in BOOLEAN : CleanupIpc("finally", unlink_ok)
       ELSE UNCHANGED <<ipc_exists, log, cleanups>>
    /\ pc' = IF exc = None THEN "returned" ELSE "raised"
    /\ LocalsUnchanged
    /\ UNCHANGED <<config, data, atexit_handlers, exc, dispatched, task_df, task_out>>

\* finally: _cleanup_ipc(config); then run_pipeline returns, or the
\* exception being re-raised reaches the caller
Finally ==
    /\ pc = "finally"
    /\ \E unlink_ok \in BOOLEAN : CleanupIpc("finally", unlink_ok)
    /\ pc' = IF exc = None THEN "returned" ELSE "raised"
    /\ LocalsUnchanged
    /\ UNCHANGED <<config, data, atexit_handlers, exc, dispatched, task_df, task_out>>

\* interpreter exit: the handler registered with atexit runs
AtExit ==
    /\ pc \in {"returned", "raised"}
    /\ atexit_handlers > 0
    /\ \E unlink_ok \in BOOLEAN : CleanupIpc("atexit", unlink_ok)
    /\ atexit_handlers' = atexit_handlers - 1
    /\ pc' = "exited"
    /\ LocalsUnchanged
    /\ UNCHANGED <<config, data, exc, dispatched, task_df, task_out>>

---------------------------------------------------------------------------
\* Spec: one run of run_pipeline over a fixed dataset.

PredictorNames == [i \in 1..NumPredictors |-> "p" \o ToString(i)]
DependentNames == <<"d1", "d2">>
CovariateNames == <<"c1">>

\* one row of the dataset: p1 holds p, the other predictors 1
RunRow(p, d1, d2, c1) ==
    [c \in SeqToSet(PredictorNames) \cup {"d1", "d2", "c1"} |->
        IF c = "p1" THEN p
        ELSE IF c = "d1" THEN d1
        ELSE IF c = "d2" THEN d2
        ELSE IF c = "c1" THEN c1
        ELSE 1]

\* d1 has cases and controls, d2 has no case; one row has no p1 and no d2
RunData ==
    [cols |-> PredictorNames \o DependentNames \o CovariateNames,
     rows |-> <<RunRow(1, 1, 0, 0), RunRow(1, 0, 0, 1), RunRow(NULL, 1, NULL, 1)>>]

Init ==
    /\ \E m \in Models :
       \E q \in BOOLEAN :
       \E preds \in {<<>>, PredictorNames} :
       \E covs \in {<<>>, CovariateNames} :
            config = [model |-> m, quantitative |-> q, min_case_count |-> 1,
                      predictor_columns |-> preds,
                      dependent_columns |-> DependentNames,
                      covariate_columns |-> covs, ipc_file |-> ""]
    /\ data = RunData
    /\ pc = "start"
    /\ task_df = EmptyFrame
    /\ task_out = NoOutcome
    /\ PipelineIdle
    /\ RunIdle

Next ==
    \/ Preprocess
    \/ GenerateTasks
    \/ \E i \in 1..Len(tasks) : RunTask(i)
    \/ CollectBatch
    \/ Postprocess
    \/ Interrupt
    \/ ExceptKeyboardInterrupt
    \/ ExceptException
    \/ Finally
    \/ AtExit

Spec == Init /\ [][Next]_vars

---------------------------------------------------------------------------
\* Properties of a run (Spec).

NumPairs == Len(config.predictor_columns) * Len(config.dependent_columns)

\* the rows of the returned table that belong to the pair of task k
RowsOfTask(k) ==
    {j \in 1..Len(result_combined) :
        /\ result_combined[j].predictor = tasks[k].predictor
        /\ result_combined[j].dependent = tasks[k].dependent}

\* run_associations has returned a table built from at least one task
TableReturned == pc = "postprocess" /\ tasks # <<>>

\* C1: with non-empty predictor and dependent lists, the tasks are the
\* (predictor, dependent) pairs, one each, predictors in the outer and
\* dependents in the inner position, and the returned table has one row per
\* task, P x D rows in all, whatever branch each task took.
C1_OneRowPerTask ==
    /\ (pc \in {"collect", "postprocess"} /\ NumPairs > 0) =>
            /\ Len(tasks) = NumPairs
            /\ \A a \in 1..Len(config.predictor_columns) :
               \A b \in 1..Len(config.dependent_columns) :
                    tasks[(a - 1) * Len(config.dependent_columns) + b] =
                        [predictor |-> config.predictor_columns[a],
                         dependent |-> config.dependent_columns[b]]
    /\ TableReturned =>
            /\ Len(result_combined) = NumPairs
            /\ \A k \in 1..Len(tasks) : Cardinality(RowsOfTask(k)) = 1

\* a returned table that holds a completed, a skipped and a failed row
C1_Witness ==
    /\ TableReturned
    /\ Len(config.predictor_columns) = NumPredictors
    /\ \E j \in 1..Len(result_combined) :
            result_combined[j].failed_reason = "nan" /\ result_combined[j].pval # NaN
    /\ \E j \in 1..Len(result_combined) :
            result_combined[j].failed_reason = "Insufficient case count (0 cases)."
    /\ \E j \in 1..Len(result_combined) :
            result_combined[j].failed_reason \in SolverMessages

\* C2: when the regression function raises for a task, the task returns a row
\* whose failed_reason is the exception's message and whose pval, beta, se and
\* confidence bounds are the sentinel; the exception never leaves the task, and
\* the returned table holds the rows of all tasks.
C2_SolverFailureIsolated ==
    /\ TableReturned =>
        \A k \in 1..Len(tasks) :
            (collected[k].call.called /\ ~collected[k].call.outcome.ok) =>
                /\ Len(result_combined) = Len(tasks)
                /\ \A j \in RowsOfTask(k) :
                    /\ result_combined[j].failed_reason = collected[k].call.outcome.msg
                    /\ result_combined[j].pval = NaN
                    /\ result_combined[j].beta = NaN
                    /\ result_combined[j].se = NaN
                    /\ result_combined[j].ci_low = NaN
                    /\ result_combined[j].ci_high = NaN
                /\ \A o \in 1..Len(tasks) : RowsOfTask(o) # {}
    /\ (pc \in {"except", "finally", "raised"} /\ exc # None) =>
            exc.msg \notin SolverMessages

\* a returned table with a row of a failed fit beside a row of a completed one
C2_Witness ==
    /\ TableReturned
    /\ \E k \in 1..Len(tasks) :
            collected[k].call.called /\ ~collected[k].call.outcome.ok
    /\ \E k \in 1..Len(tasks) :
            collected[k].call.called /\ collected[k].call.outcome.ok

---------------------------------------------------------------------------
\* Properties of run_pipeline (Spec).

Ended == pc \in {"returned", "raised", "exited"}

Logged(msg) == \E i \in 1..Len(log) : log[i] = msg

CleanupLogs == {"Cleaned up IPC file", "Failed to clean up IPC file"}

C5_FailureLoggedCleanedReraised ==
    /\ [](pc = "raised" =>
            /\ exc # None
            /\ exc.type # "KeyboardInterrupt"
            /\ Logged("Analysis failed: " \o exc.msg)
            /\ Len(cleanups) = 1
            /\ cleanups[1].caller = "finally")
    /\ [][pc = "except" =>
            /\ pc' = "finally"
            /\ exc' = exc
            /\ log' = Append(log, "Analysis failed: " \o exc.msg)
            /\ cleanups' = <<>>]_vars
    /\ [][(pc = "finally" /\ exc # None) =>
            /\ pc' = "raised"
            /\ exc' = exc
            /\ Len(cleanups') = 1
            /\ Logged("Analysis failed: " \o exc.msg)]_vars

\* the IndexError of a task has reached the caller of run_pipeline
C5_Witness ==
    /\ pc = "raised"
    /\ exc.type = "IndexError"
    /\ dispatched > 0

Interrupted == Logged("Analysis interrupted by user.")

\* C6: a KeyboardInterrupt in the analysis stage ends the dispatch of tasks,
\* is logged as an interruption and not as a failure, is not re-raised, and
\* the cleanup runs: run_pipeline returns normally.
C6_InterruptedNotFailed ==
    /\ [][pc = "except_interrupt" =>
            /\ pc' = "finally"
            /\ exc' = None
            /\ log' = Append(log, "Analysis interrupted by user.")]_vars
    /\ [][(pc = "except_interrupt" \/ Interrupted) => dispatched' = dispatched]_vars
    /\ []((Interrupted /\ Ended) =>
            /\ pc # "raised"
            /\ exc = None
            /\ \A i \in 1..Len(log) : log[i] \in CleanupLogs \cup
                    {"Analysis interrupted by user.", "No valid analyses were performed."}
            /\ cleanups # <<>>
            /\ cleanups[1].caller = "finally")

\* interrupted with some tasks evaluated and some never dispatched
C6_Witness ==
    /\ pc = "returned"
    /\ Interrupted
    /\ dispatched > 0
    /\ dispatched < NumPairs
    /\ cleanups[1].existed
    /\ ~ipc_exists

---------------------------------------------------------------------------
\* Properties of one task (TaskSpec).

TaskDone == pc = "task_done" /\ config.model \in Models

\* the frame the task validates: the projection handed to it
FrameRows == Len(task_df.rows)
\* its cases: the rows whose dependent is 1
FrameCases == Cardinality({i \in 1..Len(task_df.rows) : task_df.rows[i]["d1"] = 1})
FrameControls == FrameRows - FrameCases

\* the rows of the frame without a null predictor or dependent
CompleteRows ==
    {i \in 1..Len(task_df.rows) :
        task_df.rows[i]["p1"] # NULL /\ task_df.rows[i]["d1"] # NULL}

Skipped(reason) ==
    /\ task_out.kind = "row"
    /\ task_out.row.failed_reason = reason
    /\ ~task_out.call.called

CaseMessage(c) == "Insufficient case count (" \o ToString(c) \o " cases)."
ControlMessage(k) == "Insufficient control count (" \o ToString(k) \o " controls)."

\* C3: with a supported model, whatever the covariate list and the frame, the
\* per-task procedure returns a row; no exception leaves it.
C3_NoExceptionEscapes == TaskDone => task_out.kind = "row"

\* C7: the fitness validation counts the rows that remain after the rows with
\* a null predictor or dependent are dropped: a task that reaches the solver
\* has handed it at least one row, and the counts of its row (cases, controls,
\* total_n, or n_observations) are those of the rows handed to the solver.
C7_CountsDescribeSolverRows ==
    (TaskDone /\ task_out.kind = "row" /\ task_out.call.called) =>
        LET y == task_out.call.y
            n == Len(task_out.call.X_rows)
        IN  /\ n = Cardinality(CompleteRows)
            /\ n > 0
            /\ IF config.quantitative THEN task_out.row.n_observations = n
               ELSE /\ task_out.row.total_n = n
                    /\ task_out.row.cases = Cardinality({i \in 1..Len(y) : y[i] = 1})
                    /\ task_out.row.controls = Cardinality({i \in 1..Len(y) : y[i] = 0})

\* C8, as claimed: in binary mode a case count c below the minimum gives the
\* skip reason "Insufficient case count (c cases).", otherwise a control count
\* k below the minimum gives "Insufficient control count (k controls).", and
\* the solver is not called.
C8_InsufficientCounts ==
    (TaskDone /\ ~config.quantitative) =>
        /\ FrameCases < config.min_case_count => Skipped(CaseMessage(FrameCases))
        /\ (FrameCases >= config.min_case_count
                /\ FrameControls < config.min_case_count) =>
            Skipped(ControlMessage(FrameControls))

\* C8, amended: the same for a frame of at least one row; a frame without rows
\* is skipped with "No data after dropping nulls." before any count is taken.
C8_InsufficientCountsNonEmpty ==
    (TaskDone /\ ~config.quantitative) =>
        IF FrameRows = 0 THEN Skipped("No data after dropping nulls.")
        ELSE
            /\ FrameCases < config.min_case_count => Skipped(CaseMessage(FrameCases))
            /\ (FrameCases >= config.min_case_count
                    /\ FrameControls < config.min_case_count) =>
                Skipped(ControlMessage(FrameControls))

\* enough cases, too few controls
C8_Witness ==
    /\ TaskDone
    /\ ~config.quantitative
    /\ FrameRows > 0
    /\ FrameCases >= config.min_case_count
    /\ FrameCases > 0
    /\ FrameControls < config.min_case_count
    /\ Skipped(ControlMessage(FrameControls))

\* C9, as claimed: in binary mode a task whose case count equals its row count
\* is skipped with the reason "All observations are cases."
C9_AllCases ==
    (TaskDone /\ ~config.quantitative /\ FrameRows > 0 /\ FrameCases = FrameRows) =>
        Skipped("All observations are cases.")

\* C9, amended: such a task is always skipped and never reaches the solver;
\* its reason is "All observations are cases." only when neither count is
\* below the minimum, which with no control means a minimum of at most 0;
\* otherwise the reason is that of the count that is too small.
C9_AllCasesSkipped ==
    (TaskDone /\ ~config.quantitative /\ FrameRows > 0 /\ FrameCases = FrameRows) =>
        Skipped(IF FrameCases < config.min_case_count THEN CaseMessage(FrameCases)
                ELSE IF config.min_case_count > 0 THEN ControlMessage(0)
                ELSE "All observations are cases.")

\* every row a case, minimum 0: the all-cases branch is the one taken
C9_Witness ==
    /\ TaskDone
    /\ ~config.quantitative
    /\ FrameRows = MaxRows
    /\ FrameCases = FrameRows
    /\ Skipped("All observations are cases.")

\* C10: in continuous mode a task with rows is skipped with "Not enough
\* observations" exactly when its row count is below the minimum; otherwise
\* the row count is recorded as n_observations and the solver is called.
C10_ObservationThreshold ==
    (TaskDone /\ config.quantitative /\ FrameRows > 0) =>
        IF FrameRows < config.min_case_count THEN
            Skipped("Not enough observations (" \o ToString(FrameRows) \o ").")
        ELSE
            /\ task_out.kind = "row"
            /\ task_out.row.n_observations = FrameRows
            /\ task_out.call.called

\* C11: whatever the outcome of a task, the fields of its row are those of
\* the output schema declared for the configured model, no more and no fewer.
C11_RowHasDeclaredFields ==
    (TaskDone /\ task_out.kind = "row") =>
        DOMAIN task_out.row = GetSchemaFields(config)

\* the fields a fit computes, and the value each has while unset (the
\* default record of _get_schema)
ComputedFields ==
    {"pval", "beta", "se", "OR", "ci_low", "ci_high", "cases", "controls",
     "total_n", "n_observations", "converged", "equation"}

IsSentinel(row, f) ==
    IF f \in {"cases", "controls", "total_n", "n_observations"} THEN row[f] = CountSentinel
    ELSE IF f = "converged" THEN row[f] = FALSE
    ELSE IF f = "equation" THEN row[f] = "nan"
    ELSE row[f] = NaN

CompletedRow(row) ==
    /\ row.failed_reason = "nan"
    /\ \A f \in ComputedFields \cap DOMAIN row : ~IsSentinel(row, f)

SkippedOrFailedRow(row) ==
    /\ row.failed_reason # "nan"
    /\ \A f \in ComputedFields \cap DOMAIN row : IsSentinel(row, f)

\* C12: every row is either a Completed row, with a value in every computed
\* field and the sentinel "nan" as failed_reason, or a Skipped or Failed row,
\* with a failed_reason and the sentinel in every computed field.
C12_RowMatchesOneVariant ==
    (TaskDone /\ task_out.kind = "row") =>
        CompletedRow(task_out.row) \/ SkippedOrFailedRow(task_out.row)

---------------------------------------------------------------------------
\* Properties of the table run_associations returns (Spec).

\* the p-values of the table do not decrease, NaN being the greatest
SortedByPval(table) ==
    \A a, b \in 1..Len(table) : a < b => FloatLe(table[a].pval, table[b].pval)

\* the position in the task list of the task a row belongs to
TaskIndex(row) ==
    CHOOSE k \in 1..Len(tasks) :
        tasks[k].predictor = row.predictor /\ tasks[k].dependent = row.dependent

\* C13: the returned table is in ascending order of p-value with the NaN
\* rows last, and sorting it by p-value again gives the same table.
C13_SortedAndResortUnchanged ==
    TableReturned =>
        /\ SortedByPval(result_combined)
        /\ SortByPval(result_combined) = {result_combined}

\* C14: rows of the returned table with equal p-values, the NaN rows among
\* them, come in the order in which their tasks were generated.
C14_TiesInTaskOrder ==
    TableReturned =>
        \A a, b \in 1..Len(result_combined) :
            (a < b /\ result_combined[a].pval = result_combined[b].pval) =>
                TaskIndex(result_combined[a]) < TaskIndex(result_combined[b])

---------------------------------------------------------------------------
\* config.py: resolution of the column specifiers.  A Python string is a
\* sequence of one-character strings here, so that split, slicing, isnumeric
\* and int are computed on the characters as the code computes them.

DigitChars == <<"0", "1", "2", "3", "4", "5", "6", "7", "8", "9">>

\* str(k) for k >= 0
RECURSIVE Str(_)
Str(k) == IF k < 10 THEN <<DigitChars[k + 1]>>
          ELSE Str(k \div 10) \o <<DigitChars[(k % 10) + 1]>>

\* str.isnumeric(): not empty, and decimal digits throughout
IsNumeric(s) ==
    s # <<>> /\ \A i \in 1..Len(s) : \E d \in 1..10 : s[i] = DigitChars[d]

\* int(s) for a string of decimal digits
RECURSIVE ParseInt(_)
ParseInt(s) ==
    IF s = <<>> THEN 0
    ELSE 10 * ParseInt(SubSeq(s, 1, Len(s) - 1))
            + (CHOOSE d \in 0..9 : DigitChars[d + 1] = s[Len(s)])

\* s.split(sep) for a one-character sep: the pieces between the separators
RECURSIVE Split(_, _)
Split(s, sep) ==
    IF \A i \in 1..Len(s) : s[i] # sep THEN <<s>>
    ELSE LET k == CHOOSE i \in 1..Len(s) :
                        s[i] = sep /\ \A j \in 1..(i - 1) : s[j] # sep
         IN  <<SubSeq(s, 1, k - 1)>> \o Split(SubSeq(s, k + 1, Len(s)), sep)

\* sep.join(parts)
RECURSIVE Join(_, _)
Join(parts, sep) ==
    IF parts = <<>> THEN <<>>
    ELSE IF Len(parts) = 1 THEN parts[1]
    ELSE parts[1] \o <<sep>> \o Join(Tail(parts), sep)

\* the outcome of a resolution: the list returned, or the ValueError raised
Resolved(column_list) == [ok |-> TRUE, columns |-> column_list, error |-> ""]
ValueError(message) == [ok |-> FALSE, columns |-> <<>>, error |-> message]

\* a slice that takes the column at index end as well
SliceClosed(column_names, start, end) ==
    IF end < start THEN <<>>
    ELSE SubSeq(column_names, start + 1,
                IF end + 1 > Len(column_names) THEN Len(column_names) ELSE end + 1)

\* column_names[start:end]
Slice(column_names, start, end) ==
    IF end <= start THEN <<>>
    ELSE SubSeq(column_names, start + 1, IF end > Len(column_names) THEN Len(column_names) ELSE end)

\* MASConfig._extract_indexed_columns(index_str)
ExtractIndexedColumns(index_str, column_names) ==
    LET n_columns == Len(column_names)
        pieces == Split(index_str, ":")
        indicies == pieces[Len(pieces)]
    IN  IF IsNumeric(indicies) THEN
            LET index == ParseInt(indicies)
            IN  IF index >= n_columns THEN ValueError("Index is out of range")
                ELSE Resolved(<<column_names[index + 1]>>)
        ELSE IF \E i \in 1..Len(indicies) : indicies[i] = "-" THEN
            LET parts == Split(indicies, "-")
            IN  IF Len(parts) # 2 THEN ValueError("too many values to unpack")
                ELSE IF ~IsNumeric(parts[1]) THEN ValueError("invalid literal for int()")
                ELSE IF parts[2] # <<>> /\ ~IsNumeric(parts[2]) THEN
                    ValueError("invalid literal for int()")
                ELSE
                LET start == ParseInt(parts[1])
                    end == IF parts[2] # <<>> THEN ParseInt(parts[2]) ELSE n_columns
                IN  IF start >= n_columns THEN ValueError("Start index is out of range")
                    ELSE IF end > n_columns THEN ValueError("End index out of range")
                    ELSE Resolved(Slice(column_names, start, end))
        ELSE ValueError("Invalid index format")

\* the loop of _parse_column_list over the entries col_splits
RECURSIVE ParseEntries(_, _, _)
ParseEntries(col_splits, column_list, column_names) ==
    IF col_splits = <<>> THEN Resolved(column_list)
    ELSE
    LET col == Head(col_splits)
    IN  IF Len(col) >= 2 /\ SubSeq(col, 1, 2) = <<"i", ":">> THEN
            LET extracted == ExtractIndexedColumns(col, column_names)
            IN  IF ~extracted.ok THEN extracted
                ELSE ParseEntries(Tail(col_splits), column_list \o extracted.columns,
                                  column_names)
        ELSE IF col \notin SeqToSet(column_names) THEN
            ValueError("Column does not exist in the input file")
        ELSE ParseEntries(Tail(col_splits), Append(column_list, col), column_names)

\* an argument of type str | None
NoString == [is_none |-> TRUE, text |-> <<>>]
String(text) == [is_none |-> FALSE, text |-> text]

\* MASConfig._parse_column_list(column_str)
ParseColumnList(column_str, column_names) ==
    IF column_str.is_none THEN Resolved(<<>>)
    ELSE ParseEntries(Split(column_str.text, ","), <<>>, column_names)

---------------------------------------------------------------------------
\* ResolveSpec: one column specifier is resolved against the columns of the
\* input file, and the names it resolved to are resolved once more.

\* self.column_names: the columns c0, c1, ... of the input file
InputColumns == [k \in 1..NumColumns |-> <<"c">> \o Str(k - 1)]

\* the entries of a specifier, by their form
NameEntries ==
    {[form |-> "name", text |-> InputColumns[k]] : k \in 1..NumColumns}
    \cup {[form |-> "name", text |-> <<"z">>]}
IndexEntries ==
    {[form |-> "index", idx |-> i] : i \in (0..NumColumns) \cup {10 + NumColumns}}
RangeEntries ==
    {[form |-> "range", start |-> s, end |-> e] :
        s \in 0..NumColumns, e \in 0..(NumColumns + 1)}
OpenEntries == {[form |-> "open", start |-> s] : s \in 0..NumColumns}
MalformedEntries ==
    {[form |-> "malformed", text |-> t] :
        t \in {<<"i", ":">>, <<"i", ":", "z">>, <<"i", ":", "-", "1">>,
               <<"i", ":", "1", "-", "2", "-", "3">>, <<"i", ":", "z", "-", "1">>,
               <<"i", ":", "0", "-", "z">>}}
Entries == NameEntries \cup IndexEntries \cup RangeEntries \cup OpenEntries
                \cup MalformedEntries

\* an entry as the user writes it
EntryText(e) ==
    IF e.form = "index" THEN <<"i", ":">> \o Str(e.idx)
    ELSE IF e.form = "range" THEN <<"i", ":">> \o Str(e.start) \o <<"-">> \o Str(e.end)
    ELSE IF e.form = "open" THEN <<"i", ":">> \o Str(e.start) \o <<"-">>
    ELSE e.text

SpecifierText(entries) == Join([k \in 1..Len(entries) |-> EntryText(entries[k])], ",")

Unresolved == [ok |-> FALSE, columns |-> <<>>, error |-> "not resolved"]

ResolveInit ==
    /\ \E n \in 0..MaxEntries : \E entries \in [1..n -> Entries] :
            config = [column_names |-> InputColumns, n_columns |-> Len(InputColumns),
                      entries |-> entries,
                      column_str |-> IF n = 0 THEN NoString
                                     ELSE String(SpecifierText(entries)),
                      column_list |-> Unresolved, again |-> Unresolved]
    /\ pc = "parse"
    /\ data = EmptyFrame
    /\ task_df = EmptyFrame
    /\ task_out = NoOutcome
    /\ PipelineIdle
    /\ RunIdle

\* _parse_column_list(column_str) returns the list or raises
ResolveSpecifier ==
    /\ pc = "parse"
    /\ LET r == ParseColumnList(config.column_str, config.column_names)
       IN  /\ config' = [config EXCEPT !.column_list = r]
           /\ pc' = IF r.ok THEN "parsed" ELSE "config_error"
    /\ UNCHANGED <<data, ipc_exists, atexit_handlers, log, exc, cleanups, tasks,
                   batch_start, collected, all_results, result_combined,
                   dispatched, task_df, task_out>>

\* the names of the resolved list, comma-joined, are resolved in turn
ResolveNames ==
    /\ pc = "parsed"
    /\ config' = [config EXCEPT !.again =
            ParseColumnList(String(Join(config.column_list.columns, ",")),
                            config.column_names)]
    /\ pc' = "parsed_again"
    /\ UNCHANGED <<data, ipc_exists, atexit_handlers, log, exc, cleanups, tasks,
                   batch_start, collected, all_results, result_combined,
                   dispatched, task_df, task_out>>

ResolveNext == ResolveSpecifier \/ ResolveNames

ResolveSpec == ResolveInit /\ [][ResolveNext]_vars

\* Properties of the resolution (ResolveSpec).

IsIndexForm(e) == e.form \in {"index", "range", "open"}

\* the entry names an existing column, or indices within the input's columns
InRange(e, column_names) ==
    IF e.form = "name" THEN e.text \in SeqToSet(column_names)
    ELSE IF e.form = "index" THEN e.idx < Len(column_names)
    ELSE IF e.form = "range" THEN
        e.start < Len(column_names) /\ e.end <= Len(column_names)
    ELSE IF e.form = "open" THEN e.start < Len(column_names)
    ELSE FALSE

\* the columns at the zero-based indices first .. last
ColumnsAt(column_names, first, last) ==
    IF last < first THEN <<>>
    ELSE [k \in 1..(last - first + 1) |-> column_names[first + k]]

\* what an entry stands for
EntryColumns(e, column_names) ==
    IF e.form = "name" THEN <<e.text>>
    ELSE IF e.form = "index" THEN ColumnsAt(column_names, e.idx, e.idx)
    ELSE IF e.form = "range" THEN ColumnsAt(column_names, e.start, e.end - 1)
    ELSE ColumnsAt(column_names, e.start, Len(column_names) - 1)

RECURSIVE EntriesColumns(_, _)
EntriesColumns(entries, column_names) ==
    IF entries = <<>> THEN <<>>
    ELSE EntryColumns(Head(entries), column_names)
            \o EntriesColumns(Tail(entries), column_names)

ResolutionDone == pc \in {"parsed", "config_error"}

\* C16: a specifier whose entries are existing names and indices within the
\* input's columns resolves to the concatenation, in entry order, of: the
\* name itself, the column at index idx, the columns at start..end-1, the
\* columns from start through the last one.
C16_EntriesResolveInOrder ==
    (ResolutionDone
        /\ \A k \in 1..Len(config.entries) : InRange(config.entries[k], config.column_names)) =>
        /\ pc = "parsed"
        /\ config.column_list = Resolved(EntriesColumns(config.entries, config.column_names))

\* a range of more than one column followed by an open range
C16_Witness ==
    /\ pc = "parsed"
    /\ Len(config.entries) = 2
    /\ config.entries[1].form = "range"
    /\ config.entries[1].end > config.entries[1].start + 1
    /\ config.entries[2].form = "open"
    /\ Len(config.column_list.columns) > 3

\* C17: a specifier with an index entry that refers outside the input's
\* columns is rejected, and in an accepted specifier every index entry
\* stands for a non-empty list of existing columns.
C17_OutOfRangeRejectedElseNonEmpty ==
    ResolutionDone =>
        /\ (\E k \in 1..Len(config.entries) :
                /\ IsIndexForm(config.entries[k])
                /\ ~InRange(config.entries[k], config.column_names)) =>
            (pc = "config_error" /\ ~config.column_list.ok)
        /\ pc = "parsed" =>
            \A k \in 1..Len(config.entries) :
                IsIndexForm(config.entries[k]) =>
                    LET r == ExtractIndexedColumns(EntryText(config.entries[k]),
                                                   config.column_names)
                    IN  /\ r.ok
                        /\ r.columns # <<>>
                        /\ SeqToSet(r.columns) \subseteq SeqToSet(config.column_names)

\* C18: the comma-joined names of the list a specifier resolved to resolve to
\* that same list.
C18_NamesResolveToSameList ==
    (pc = "parsed_again" /\ ~config.column_str.is_none) =>
        config.again = Resolved(config.column_list.columns)

---------------------------------------------------------------------------
\* config.py: construction of a MASConfig, followed by run_pipeline on the
\* configuration constructed (ConfigSpec).

\* the input formats _validate_io has a reader for
InputSuffixes == {".parquet", ".csv", ".tsv", ".txt"}

\* MASConfig._validate_io: the message of the ValueError raised, or ""
ValidateIo(args) ==
    IF ~args.input_exists THEN "Input file does not exist"
    ELSE IF ~args.output_parent_exists THEN "Output directory does not exist"
    ELSE IF args.suffix \notin InputSuffixes THEN "Unsupported input file format"
    ELSE ""

\* an assertion that lets every role list through
AssertUniqueColumnSetsNever(predictor_columns, dependent_columns, covariate_columns) == ""

\* MASConfig._assert_unique_column_sets: the message of the ValueError
\* raised, or ""
AssertUniqueColumnSets(predictor_columns, dependent_columns, covariate_columns) ==
    LET predictor_set == SeqToSet(predictor_columns)
        dependent_set == SeqToSet(dependent_columns)
        covariate_set == SeqToSet(covariate_columns)
    IN  IF predictor_set \cap dependent_set # {} THEN
            "Predictor and dependent columns must be unique"
        ELSE IF predictor_set \cap covariate_set # {} THEN
            "Predictor and covariate columns must be unique"
        ELSE IF dependent_set \cap covariate_set # {} THEN
            "Dependent and covariate columns must be unique"
        ELSE ""

Constructed(p, d, c) ==
    [ok |-> TRUE, error |-> "", predictor_columns |-> p, dependent_columns |-> d,
     covariate_columns |-> c]
NotConstructed(message) ==
    [ok |-> FALSE, error |-> message, predictor_columns |-> <<>>,
     dependent_columns |-> <<>>, covariate_columns |-> <<>>]

\* MASConfig.__post_init__ on the constructor arguments: _validate_io,
\* _parse_column_lists, _assert_unique_column_sets; the first ValueError ends it
PostInit(args) ==
    LET io == ValidateIo(args)
        column_names == args.file_columns
        p == ParseColumnList(args.predictors, column_names)
        d == ParseColumnList(args.dependents, column_names)
        c == ParseColumnList(args.covariates, column_names)
    IN  IF io # "" THEN NotConstructed(io)
        ELSE IF ~p.ok THEN NotConstructed(p.error)
        ELSE IF ~d.ok THEN NotConstructed(d.error)
        ELSE IF ~c.ok THEN NotConstructed(c.error)
        ELSE LET unique == AssertUniqueColumnSets(p.columns, d.columns, c.columns)
             IN  IF unique # "" THEN NotConstructed(unique)
                 ELSE Constructed(p.columns, d.columns, c.columns)

\* a Python string from its characters
RECURSIVE StrCat(_)
StrCat(chars) == IF chars = <<>> THEN "" ELSE Head(chars) \o StrCat(Tail(chars))

\* the columns of the input file RunData, as the reader names them
FileColumns ==
    [k \in 1..NumPredictors |-> <<"p">> \o Str(k)]
        \o << <<"d", "1">>, <<"d", "2">>, <<"c", "1">> >>

NameEntry(text) == [form |-> "name", text |-> text]

\* the specifiers offered for each role, as entries
PredictorOptions ==
    {<<>>,
     <<[form |-> "range", start |-> 0, end |-> NumPredictors]>>,
     <<NameEntry(<<"z", "z">>)>>,
     <<[form |-> "index", idx |-> NumPredictors + 10]>>,
     <<NameEntry(<<"d", "1">>)>>}
DependentOptions ==
    {<<NameEntry(<<"d", "1">>), NameEntry(<<"d", "2">>)>>,
     <<[form |-> "range", start |-> NumPredictors, end |-> NumPredictors + 2]>>}
CovariateOptions ==
    {<<>>,
     <<NameEntry(<<"c", "1">>)>>,
     <<[form |-> "open", start |-> NumPredictors + 2]>>,
     <<NameEntry(<<"p", "1">>)>>}

\* the specifier argument made of the entries; none given when there are none
SpecifierArg(entries) ==
    IF entries = <<>> THEN NoString ELSE String(SpecifierText(entries))

ConfigInit ==
    /\ \E found \in BOOLEAN :
       \E parent \in BOOLEAN :
       \E suffix \in {".csv", ".xlsx"} :
       \E m \in Models \cup {"probit"} :
       \E p \in PredictorOptions :
       \E d \in DependentOptions :
       \E c \in CovariateOptions :
            config = [input_exists |-> found, output_parent_exists |-> parent,
                      suffix |-> suffix, file_columns |-> FileColumns,
                      entries |-> [predictors |-> p, dependents |-> d, covariates |-> c],
                      predictors |-> SpecifierArg(p), dependents |-> SpecifierArg(d),
                      covariates |-> SpecifierArg(c), model |-> m,
                      constructed |-> NotConstructed("not constructed")]
    /\ data = RunData
    /\ pc = "construct"
    /\ task_df = EmptyFrame
    /\ task_out = NoOutcome
    /\ PipelineIdle
    /\ RunIdle

\* MASConfig(...): __post_init__ returns, or raises a ValueError that
\* reaches the caller
Construct ==
    /\ pc = "construct"
    /\ LET r == PostInit(config)
       IN  /\ config' = [config EXCEPT !.constructed = r]
           /\ pc' = IF r.ok THEN "constructed" ELSE "config_error"
           /\ exc' = IF r.ok THEN exc ELSE [type |-> "ValueError", msg |-> r.error]
    /\ UNCHANGED <<data, ipc_exists, atexit_handlers, log, cleanups, tasks,
                   batch_start, collected, all_results, result_combined,
                   dispatched, task_df, task_out>>

\* run_pipeline(config) is entered with the configuration constructed
StartRun ==
    /\ pc = "constructed"
    /\ LET names(columns) == [k \in 1..Len(columns) |-> StrCat(columns[k])]
       IN  config' = [model |-> config.model, quantitative |-> FALSE,
                      min_case_count |-> 1,
                      predictor_columns |-> names(config.constructed.predictor_columns),
                      dependent_columns |-> names(config.constructed.dependent_columns),
                      covariate_columns |-> names(config.constructed.covariate_columns),
                      ipc_file |-> ""]
    /\ pc' = "start"
    /\ UNCHANGED <<data, ipc_exists, atexit_handlers, log, exc, cleanups, tasks,
                   batch_start, collected, all_results, result_combined,
                   dispatched, task_df, task_out>>

ConfigNext == Construct \/ StartRun \/ Next

ConfigSpec == ConfigInit /\ [][ConfigNext]_vars

\* Properties of configuration errors (ConfigSpec).

Roles == {"predictors", "dependents", "covariates"}

\* an entry of some role names no column, or an index outside the columns
UnknownColumn(args) ==
    \E r \in Roles : \E k \in 1..Len(args.entries[r]) :
        ~InRange(args.entries[r][k], args.file_columns)

\* some column is given two roles
OverlappingRoles(args) ==
    /\ ~UnknownColumn(args)
    /\ \E r, s \in Roles :
        /\ r # s
        /\ SeqToSet(EntriesColumns(args.entries[r], args.file_columns))
             \cap SeqToSet(EntriesColumns(args.entries[s], args.file_columns)) # {}

\* the errors of the constructor arguments
BadArguments(args) ==
    \/ ~args.input_exists
    \/ ~args.output_parent_exists
    \/ UnknownColumn(args)
    \/ OverlappingRoles(args)

\* run_pipeline has been entered
RunPhase == pc \notin {"construct", "constructed", "config_error"}

UnsupportedModel == RunPhase /\ config.model \notin Models

NothingAnalysed ==
    /\ \A i \in 1..Len(collected) : collected[i].kind = "none"
    /\ all_results = <<>>
    /\ pc = "postprocess" => result_combined = <<>>

DistinctNonNull(df, c) ==
    Cardinality({df.rows[i][c] : i \in 1..Len(df.rows)} \ {NULL})

RECURSIVE RowsEq(_, _, _)
RowsEq(rows, c, v) ==
    IF rows = <<>> THEN <<>>
    ELSE IF Head(rows)[c] # NULL /\ Head(rows)[c] = v
         THEN <<Head(rows)>> \o RowsEq(Tail(rows), c, v)
         ELSE RowsEq(Tail(rows), c, v)

\* DataFrame.filter(pl.col(c).eq(v)): a null cell does not compare equal
FilterEq(df, c, v) == [cols |-> df.cols, rows |-> RowsEq(df.rows, c, v)]

\* ','.join(names)
RECURSIVE JoinNames(_)
JoinNames(names) ==
    IF names = <<>> THEN ""
    ELSE IF Len(names) = 1 THEN names[1]
         ELSE names[1] \o "," \o JoinNames(Tail(names))

\* the columns, in the order selected, whose transposed count passes
\* .filter(pl.col("unique_count") == 1)
ConstCols(df, columns) ==
    FilterSeq(columns, {c \in SeqToSet(columns) : DistinctNonNull(df, c) = 1})

\* the three role lists without the given columns, and the two lists
\* derived from them
WithoutColumns(args, columns) ==
    LET predictors == FilterSeq(args.predictors, SeqToSet(args.predictors) \ columns)
        covariates == FilterSeq(args.covariates, SeqToSet(args.covariates) \ columns)
        dependents == FilterSeq(args.dependents, SeqToSet(args.dependents) \ columns)
    IN  [args EXCEPT !.predictors = predictors,
                     !.covariates = covariates,
                     !.dependents = dependents,
                     !.independents = predictors \o covariates,
                     !.selected_columns = predictors \o covariates \o dependents]

PruneRoleListsCovariatesOnly(args, const_cols) ==
    LET covariates == FilterSeq(args.covariates,
                                SeqToSet(args.covariates) \ SeqToSet(const_cols))
    IN  [args EXCEPT !.covariates = covariates,
                     !.independents = args.predictors \o covariates,
                     !.selected_columns = args.predictors \o covariates \o args.dependents]

\* the role lists of args after the constant columns are taken out
PruneRoleLists(args, const_cols) == WithoutColumns(args, SeqToSet(const_cols))

\* the male_only / female_only branches of check_for_constants
SexFilter(df, args) ==
    IF args.male_only THEN
        [df |-> Drop(FilterEq(df, args.sex_col, args.male_code), {args.sex_col}),
         args |-> WithoutColumns(args, {args.sex_col})]
    ELSE IF args.female_only THEN
        [df |-> Drop(FilterEq(df, args.sex_col, args.female_code), {args.sex_col}),
         args |-> WithoutColumns(args, {args.sex_col})]
    ELSE [df |-> df, args |-> args]

\* check_for_constants(args) of mas.py: the ValueError raised or the role
\* lists left in args.  The filtered frame df is a local of the method,
\* which has no return statement.
CheckForConstants(df, args) ==
    LET f == SexFilter(df, args)
        const_cols == ConstCols(f.df, f.args.selected_columns)
    IN  IF const_cols # <<>> /\ ~f.args.drop_constants THEN
            [raised |-> TRUE,
             message |-> "Columns " \o JoinNames(const_cols)
                         \o " are constant. Please remove them from selection or use --drop-constants.",
             const_cols |-> const_cols,
             returned |-> None,
             args |-> f.args]
        ELSE
            [raised |-> FALSE, message |-> "", const_cols |-> const_cols,
             returned |-> None,
             args |-> IF const_cols # <<>>
                      THEN PruneRoleLists(f.args, const_cols)
                      ELSE f.args]

\* check_predictors_for_constants(predictors, drop) of the aurora
\* namespace: the error logged before the bare ValueError, or the list
\* predictors as updated in place and the frame returned
CheckPredictorsForConstants(df, predictors, drop) ==
    LET const_cols == ConstCols(df, predictors)
    IN  IF const_cols # <<>> /\ ~drop THEN
            [raised |-> TRUE,
             message |-> "Columns " \o JoinNames(const_cols)
                         \o " are constants. Please remove from analysis or set drop=True.",
             const_cols |-> const_cols, predictors |-> predictors, df |-> df]
        ELSE IF const_cols # <<>> THEN
            [raised |-> FALSE, message |-> "", const_cols |-> const_cols,
             predictors |-> FilterSeq(predictors,
                                      SeqToSet(predictors) \ SeqToSet(const_cols)),
             df |-> Drop(df, SeqToSet(const_cols))]
        ELSE
            [raised |-> FALSE, message |-> "", const_cols |-> const_cols,
             predictors |-> predictors, df |-> df]

RECURSIVE SortedSeq(_)
SortedSeq(S) ==
    IF S = {} THEN <<>>
    ELSE LET m == CHOOSE m \in S : \A y \in S : m <= y
         IN  <<m>> \o SortedSeq(S \ {m})

\* the categories of column c that DataFrame.to_dummies(drop_first=True)
\* keeps: null is a category like any value, the category of the first row
\* is dropped, and the others come in the order of their column names
DummyValues(df, c) ==
    IF df.rows = <<>> THEN <<>>
    ELSE LET kept == {df.rows[i][c] : i \in 1..Len(df.rows)} \ {df.rows[1][c]}
         IN  SortedSeq(kept \ {NULL}) \o (IF NULL \in kept THEN <<NULL>> ELSE <<>>)

DummyName(c, v) == c \o "_" \o (IF v = NULL THEN "null" ELSE ToString(v))

\* dummy.collect_schema().names(): an expanded column gives way, in place,
\* to its indicator columns
RECURSIVE DummyCols(_, _, _)
DummyCols(df, cols, not_binary) ==
    IF cols = <<>> THEN <<>>
    ELSE (IF Head(cols) \in not_binary
          THEN [k \in 1..Len(DummyValues(df, Head(cols))) |->
                    DummyName(Head(cols), DummyValues(df, Head(cols))[k])]
          ELSE <<Head(cols)>>)
         \o DummyCols(df, Tail(cols), not_binary)

\* DataFrame.to_dummies(not_binary, drop_first=True)
ToDummies(df, not_binary) ==
    LET names == DummyCols(df, df.cols, not_binary)
        indicators == {[name |-> DummyName(c, v), col |-> c, value |-> v] :
                       <<c, v>> \in UNION {{<<c, v>> : v \in SeqToSet(DummyValues(df, c))} :
                                           c \in not_binary}}
        Cell(row, n) ==
            IF n \in SeqToSet(df.cols) \ not_binary THEN row[n]
            ELSE LET s == CHOOSE s \in indicators : s.name = n
                 IN  IF row[s.col] = s.value THEN 1 ELSE 0
    IN  [cols |-> names,
         rows |-> [i \in 1..Len(df.rows) |->
                      [n \in SeqToSet(names) |-> Cell(df.rows[i], n)]]]

DummyPredictorsPredictorLast(predictor, dummy_cols, dependents) ==
    FilterSeq(dummy_cols,
              SeqToSet(dummy_cols) \ (SeqToSet(dependents) \cup {predictor}))
        \o <<predictor>>

DummyPredictorsKeepDependents(predictor, dummy_cols, dependents) ==
    <<predictor>> \o FilterSeq(dummy_cols, SeqToSet(dummy_cols) \ {predictor})

\* [predictor] + [col for col in dummy_cols
\*                if col not in dependents and col != predictor]
DummyPredictors(predictor, dummy_cols, dependents) ==
    <<predictor>> \o FilterSeq(dummy_cols,
                               SeqToSet(dummy_cols) \ (SeqToSet(dependents) \cup {predictor}))

\* category_to_dummy of the aurora namespace: the lists as updated in
\* place and the frame returned.  Selecting a categorical covariate that
\* the frame no longer holds raises polars' ColumnNotFoundError.
CategoryToDummy(df, categorical_covariates, predictor, predictors, covariates, dependents) ==
    IF ~(SeqToSet(categorical_covariates) \subseteq SeqToSet(df.cols)) THEN
        [raised |-> TRUE, df |-> df, predictors |-> predictors,
         covariates |-> covariates, categorical_covariates |-> categorical_covariates]
    ELSE
        LET not_binary == FilterSeq(categorical_covariates,
                              {c \in SeqToSet(categorical_covariates) :
                                   DistinctNonNull(df, c) > 2})
            dummy == ToDummies(df, SeqToSet(not_binary))
            dummy_cols == dummy.cols
            new_predictors == DummyPredictors(predictor, dummy_cols, dependents)
            original_covars == covariates
            new_covariates == FilterSeq(new_predictors,
                                        SeqToSet(new_predictors) \ {predictor})
            binary_covars == FilterSeq(categorical_covariates,
                                 SeqToSet(categorical_covariates) \ SeqToSet(not_binary))
            new_binary_covars == FilterSeq(new_covariates,
                                     SeqToSet(new_covariates) \ SeqToSet(original_covars))
        IN  IF not_binary # <<>> THEN
                [raised |-> FALSE, df |-> dummy, predictors |-> new_predictors,
                 covariates |-> new_covariates,
                 categorical_covariates |-> binary_covars \o new_binary_covars]
            ELSE
                [raised |-> FALSE, df |-> df, predictors |-> predictors,
                 covariates |-> covariates,
                 categorical_covariates |-> categorical_covariates]

(***************************************************************************)
(* The preprocessing of one dataset: the role lists pass                   *)
(* _assert_unique_column_sets or are rejected; accepted lists are carried  *)
(* through check_for_constants (mas.py), or through the aurora entry       *)
(* point's check_predictors_for_constants and category_to_dummy.           *)
(***************************************************************************)

\* the values a column of the input holds, row by row
ColumnProfiles ==
    {<<NULL, NULL, NULL, NULL>>, <<1, 1, 1, 1>>, <<1, NULL, 1, 1>>,
     <<0, 1, 0, 1>>, <<0, 1, 2, 0>>, <<0, 1, 2, NULL>>}

\* the values of the sex-indicator column
SexProfiles == {<<0, 1, 1, 0>>, <<1, 1, 1, 1>>}

PrepFrame(x, c, d, sex) ==
    [cols |-> <<"x", "c", "d", "sex">>,
     rows |-> [i \in 1..Len(sex) |->
                  [x |-> x[i], c |-> c[i], d |-> d[i], sex |-> sex[i]]]]

\* the role lists handed in: predictors, covariates, dependents
RoleOptions ==
    {<<<<"x">>, <<"c">>, <<"d">>>>,
     <<<<"x">>, <<"c", "sex">>, <<"d">>>>,
     <<<<"x", "sex">>, <<"c">>, <<"d">>>>,
     <<<<"x">>, <<"x", "c">>, <<"d">>>>,
     <<<<"x">>, <<"c">>, <<"d", "c">>>>,
     <<<<"x">>, <<"c">>, <<"x">>>>}

PrepInit ==
    /\ \E x \in ColumnProfiles, c \in ColumnProfiles, d \in ColumnProfiles,
          sex \in SexProfiles :
            data = PrepFrame(x, c, d, sex)
    /\ \E roles \in RoleOptions, male_only \in BOOLEAN, female_only \in BOOLEAN,
          drop_constants \in BOOLEAN :
            config = [predictors |-> roles[1], covariates |-> roles[2],
                      dependents |-> roles[3],
                      independents |-> roles[1] \o roles[2],
                      selected_columns |-> roles[1] \o roles[2] \o roles[3],
                      sex_col |-> "sex", male_code |-> 1, female_code |-> 0,
                      male_only |-> male_only, female_only |-> female_only,
                      drop_constants |-> drop_constants,
                      predictor |-> "", categorical_covariates |-> <<"c">>,
                      returned_none |-> FALSE]
    /\ pc = "assert_unique"
    /\ task_df = EmptyFrame
    /\ task_out = NoOutcome
    /\ PipelineIdle
    /\ RunIdle

\* MASConfig._assert_unique_column_sets on the role lists
AssertRoles ==
    /\ pc = "assert_unique"
    /\ LET error == AssertUniqueColumnSets(config.predictors, config.dependents,
                                           config.covariates)
       IN  /\ pc' = IF error = "" THEN "roles_unique" ELSE "config_error"
           /\ exc' = IF error = "" THEN exc ELSE [type |-> "ValueError", msg |-> error]
    /\ UNCHANGED <<config, data, log>>
    /\ UNCHANGED <<ipc_exists, atexit_handlers, cleanups, tasks, batch_start,
                   collected, all_results, result_combined, dispatched,
                   task_df, task_out>>

\* df.mas.check_for_constants(args)
MasCheckForConstants ==
    /\ pc = "roles_unique"
    /\ LET r == CheckForConstants(data, config)
       IN  /\ config' = [r.args EXCEPT !.returned_none = (r.returned = None)]
           /\ pc' = IF r.raised THEN "constant_error" ELSE "mas_checked"
           /\ exc' = IF r.raised THEN [type |-> "ValueError", msg |-> r.message]
                     ELSE exc
    /\ UNCHANGED <<data, log>>
    /\ UNCHANGED <<ipc_exists, atexit_handlers, cleanups, tasks, batch_start,
                   collected, all_results, result_combined, dispatched,
                   task_df, task_out>>

\* aurora(...): selected_columns and predictors are built from the one
\* predictor, and the frame is narrowed to the selected columns
AuroraSelect ==
    /\ pc = "roles_unique"
    /\ Len(config.predictors) = 1
    /\ LET predictor == config.predictors[1]
           selected_columns == <<predictor>> \o config.covariates \o config.dependents
       IN  /\ config' = [config EXCEPT !.predictor = predictor,
                                       !.selected_columns = selected_columns,
                                       !.predictors = <<predictor>> \o config.covariates]
           /\ data' = Select(data, selected_columns)
    /\ pc' = "aurora_selected"
    /\ UNCHANGED <<log, exc>>
    /\ UNCHANGED <<ipc_exists, atexit_handlers, cleanups, tasks, batch_start,
                   collected, all_results, result_combined, dispatched,
                   task_df, task_out>>

\* .aurora.check_predictors_for_constants(predictors, drop)
AuroraCheckPredictorsForConstants ==
    /\ pc = "aurora_selected"
    /\ LET r == CheckPredictorsForConstants(data, config.predictors,
                                            config.drop_constants)
       IN  /\ config' = [config EXCEPT !.predictors = r.predictors]
           /\ data' = r.df
           /\ pc' = IF r.raised THEN "constant_error" ELSE "aurora_checked"
           /\ log' = IF r.raised THEN Append(log, r.message) ELSE log
           /\ exc' = IF r.raised THEN [type |-> "ValueError", msg |-> ""] ELSE exc
    /\ UNCHANGED <<ipc_exists, atexit_handlers, cleanups, tasks, batch_start,
                   collected, all_results, result_combined, dispatched,
                   task_df, task_out>>

\* .aurora.category_to_dummy(categorical_covariates, predictor, predictors,
\*                           covariates, dependents)
AuroraCategoryToDummy ==
    /\ pc = "aurora_checked"
    /\ LET r == CategoryToDummy(data, config.categorical_covariates,
                                config.predictor, config.predictors,
                                config.covariates, config.dependents)
       IN  /\ config' = [config EXCEPT !.predictors = r.predictors,
                                       !.covariates = r.covariates,
                                       !.categorical_covariates =
                                            r.categorical_covariates]
           /\ data' = r.df
           /\ pc' = IF r.raised THEN "column_not_found" ELSE "aurora_expanded"
           /\ exc' = IF r.raised THEN [type |-> "ColumnNotFoundError", msg |-> ""]
                     ELSE exc
    /\ UNCHANGED log
    /\ UNCHANGED <<ipc_exists, atexit_handlers, cleanups, tasks, batch_start,
                   collected, all_results, result_combined, dispatched,
                   task_df, task_out>>

\* check_for_constants applied to what the first application returned:
\* attribute access on None raises AttributeError
MasCheckForConstantsAgain ==
    /\ pc = "mas_checked"
    /\ IF config.returned_none THEN
            /\ pc' = "attribute_error"
            /\ exc' = [type |-> "AttributeError",
                       msg |-> "'NoneType' object has no attribute 'mas'"]
            /\ config' = config
       ELSE
            LET r == CheckForConstants(data, config)
            IN  /\ config' = [r.args EXCEPT !.returned_none = (r.returned = None)]
                /\ pc' = IF r.raised THEN "constant_error" ELSE "mas_checked_again"
                /\ exc' = IF r.raised THEN [type |-> "ValueError", msg |-> r.message]
                          ELSE exc
    /\ UNCHANGED <<data, log>>
    /\ UNCHANGED <<ipc_exists, atexit_handlers, cleanups, tasks, batch_start,
                   collected, all_results, result_combined, dispatched,
                   task_df, task_out>>

\* check_predictors_for_constants applied to the frame and the list the
\* first application returned
AuroraCheckPredictorsForConstantsAgain ==
    /\ pc = "aurora_checked"
    /\ LET r == CheckPredictorsForConstants(data, config.predictors,
                                            config.drop_constants)
       IN  /\ config' = [config EXCEPT !.predictors = r.predictors]
           /\ data' = r.df
           /\ pc' = IF r.raised THEN "constant_error" ELSE "aurora_checked_again"
           /\ log' = IF r.raised THEN Append(log, r.message) ELSE log
           /\ exc' = IF r.raised THEN [type |-> "ValueError", msg |-> ""] ELSE exc
    /\ UNCHANGED <<ipc_exists, atexit_handlers, cleanups, tasks, batch_start,
                   collected, all_results, result_combined, dispatched,
                   task_df, task_out>>

PrepNext ==
    \/ AssertRoles
    \/ MasCheckForConstants
    \/ MasCheckForConstantsAgain
    \/ AuroraSelect
    \/ AuroraCheckPredictorsForConstants
    \/ AuroraCheckPredictorsForConstantsAgain
    \/ AuroraCategoryToDummy

PrepSpec == PrepInit /\ [][PrepNext]_vars

(***************************************************************************)
(* Properties of the preprocessing                                         *)
(***************************************************************************)

PairwiseDisjoint(predictors, covariates, dependents) ==
    /\ SeqToSet(predictors) \cap SeqToSet(covariates) = {}
    /\ SeqToSet(predictors) \cap SeqToSet(dependents) = {}
    /\ SeqToSet(covariates) \cap SeqToSet(dependents) = {}

\* the role lists went through mas.py, not through the aurora entry point
MasPath == config.predictor = ""

AfterMasCheck == MasPath /\ pc \in {"mas_checked", "constant_error"}

C15_WitnessSexRemoved ==
    /\ pc = "mas_checked"
    /\ config.male_only
    /\ "sex" \notin SeqToSet(config.covariates)
    /\ config.covariates # <<>>

\* the three role lists, as one value
RoleLists(args) == <<args.predictors, args.covariates, args.dependents>>

RoleNames(args) ==
    SeqToSet(args.predictors) \cup SeqToSet(args.covariates)
        \cup SeqToSet(args.dependents)

\* the candidate columns whose count of distinct non-null values is one of
\* counts
Offending(df, columns, counts) ==
    {c \in SeqToSet(columns) : DistinctNonNull(df, c) \in counts}

\* a step of check_for_constants (mas.py)
MasStep == pc = "roles_unique" /\ pc' \in {"mas_checked", "constant_error"}

\* a step of check_predictors_for_constants (aurora)
AuroraStep == pc = "aurora_selected" /\ pc' \in {"aurora_checked", "constant_error"}

\* check_for_constants treats the columns with a count in counts as the
\* claim says: dropped from the dataset and the role lists, or named in a
\* ValueError that leaves the role lists alone
MasPrunes(counts) ==
    LET f == SexFilter(data, config)
        offending == Offending(f.df, f.args.selected_columns, counts)
    IN  IF offending = {} THEN
            pc' = "mas_checked" /\ RoleLists(config') = RoleLists(f.args)
        ELSE IF config.drop_constants THEN
            /\ pc' = "mas_checked"
            /\ offending \cap RoleNames(config') = {}
            /\ offending \cap SeqToSet(data'.cols) = {}
        ELSE
            /\ pc' = "constant_error"
            /\ exc'.type = "ValueError"
            /\ exc'.msg = "Columns "
                    \o JoinNames(FilterSeq(f.args.selected_columns, offending))
                    \o " are constant. Please remove them from selection or use --drop-constants."
            /\ RoleLists(config') = RoleLists(f.args)

\* the same of check_predictors_for_constants, whose error message is
\* logged before a bare ValueError is raised
AuroraPrunes(counts) ==
    LET offending == Offending(data, config.predictors, counts)
    IN  IF offending = {} THEN
            /\ pc' = "aurora_checked"
            /\ RoleLists(config') = RoleLists(config)
            /\ data' = data
        ELSE IF config.drop_constants THEN
            /\ pc' = "aurora_checked"
            /\ offending \cap RoleNames(config') = {}
            /\ offending \cap SeqToSet(data'.cols) = {}
        ELSE
            /\ pc' = "constant_error"
            /\ exc'.type = "ValueError"
            /\ log' = Append(log, "Columns "
                    \o JoinNames(FilterSeq(config.predictors, offending))
                    \o " are constants. Please remove from analysis or set drop=True.")
            /\ RoleLists(config') = RoleLists(config)

\* C20: global constant pruning detects every candidate column whose count
\* of distinct non-null values is at most one (one repeated value, or no
\* non-null value at all); with dropping enabled each such column is
\* removed from the dataset and from its role list, otherwise a fatal error
\* naming all of them is raised and the role lists are left unchanged.
C20_ConstantPruning ==
    [][/\ MasStep => MasPrunes({0, 1})
       /\ AuroraStep => AuroraPrunes({0, 1})]_vars

\* a second application of check_for_constants (mas.py)
MasStepAgain ==
    pc = "mas_checked" /\ pc' \in {"mas_checked_again", "constant_error", "attribute_error"}

\* a second application of check_predictors_for_constants (aurora)
AuroraStepAgain ==
    pc = "aurora_checked" /\ pc' \in {"aurora_checked_again", "constant_error"}

\* C21: constant-column pruning with dropping enabled is idempotent: a
\* second application to the dataset and role lists the first one returned
\* completes, drops no column and changes no role list.
C21_PruningIdempotent ==
    [][/\ (MasStepAgain /\ config.drop_constants)
            => /\ pc' = "mas_checked_again"
               /\ data' = data
               /\ RoleLists(config') = RoleLists(config)
       /\ (AuroraStepAgain /\ config.drop_constants)
            => /\ pc' = "aurora_checked_again"
               /\ data' = data
               /\ RoleLists(config') = RoleLists(config)]_vars

\* list without the names in columns
Without(list, columns) == FilterSeq(list, SeqToSet(list) \ columns)

DummyStep == pc = "aurora_checked" /\ pc' = "aurora_expanded"

\* the columns of the returned frame that are indicators of column c
Indicators(c) ==
    {n \in SeqToSet(data'.cols) \ SeqToSet(data.cols) :
        \E i \in 1..Len(data.rows) : n = DummyName(c, data.rows[i][c])}

\* C23: categorical expansion never changes the number of rows; a
\* categorical covariate with k > 2 distinct non-null values gives exactly
\* k-1 indicator columns and leaves the dataset and the covariate list; one
\* with at most 2 distinct non-null values is left unexpanded, and the role
\* lists are unchanged when nothing is expanded.
C23_ExpansionShape ==
    [][DummyStep =>
        /\ Len(data'.rows) = Len(data.rows)
        /\ \A c \in SeqToSet(config.categorical_covariates) :
              IF DistinctNonNull(data, c) > 2 THEN
                  /\ Cardinality(Indicators(c)) = DistinctNonNull(data, c) - 1
                  /\ c \notin SeqToSet(data'.cols)
                  /\ c \notin SeqToSet(config'.covariates)
              ELSE
                  /\ Indicators(c) = {}
                  /\ c \in SeqToSet(data'.cols)
        /\ (\A c \in SeqToSet(config.categorical_covariates) :
                DistinctNonNull(data, c) <= 2)
              => /\ RoleLists(config') = RoleLists(config)
                 /\ data' = data]_vars

\* the list with every expanded column replaced, where it stood, by its
\* indicator columns in the order the returned frame has them
RECURSIVE Spliced(_)
Spliced(list) ==
    IF list = <<>> THEN <<>>
    ELSE (IF Indicators(Head(list)) # {}
          THEN FilterSeq(data'.cols, Indicators(Head(list)))
          ELSE <<Head(list)>>)
         \o Spliced(Tail(list))

\* the entries of the list that are columns of the frame handed in
InFrame(list) == FilterSeq(list, SeqToSet(data.cols))

Expanded == \E c \in SeqToSet(config.categorical_covariates) : Indicators(c) # {}

\* C24: after categorical expansion the indicator names stand in the
\* covariate and predictor lists where the original column stood, every
\* other column of the frame keeps its relative order, the primary predictor
\* is first in the predictor list, and no dependent column is in either
\* list.
C24_IndicatorsSplicedInPlace ==
    [][DummyStep =>
        /\ config'.covariates =
              IF Expanded THEN Spliced(InFrame(config.covariates))
              ELSE config.covariates
        /\ config'.predictors =
              IF Expanded
              THEN <<config.predictor>>
                       \o Spliced(InFrame(Without(config.predictors,
                                                  {config.predictor})))
              ELSE config.predictors
        /\ (Expanded \/ Head(config.predictors) = config.predictor)
              => Head(config'.predictors) = config.predictor
        /\ SeqToSet(config'.predictors) \cap SeqToSet(config.dependents) = {}
        /\ SeqToSet(config'.covariates) \cap SeqToSet(config.dependents) = {}
        /\ config'.dependents = config.dependents]_vars

C24_Witness ==
    /\ pc = "aurora_expanded"
    /\ config.covariates = <<"c_1", "c_2", "sex">>
    /\ config.predictors = <<"x", "c_1", "c_2", "sex">>
    /\ config.dependents = <<"d">>

(***************************************************************************)
(* Properties of one task: the covariates that reach the solver            *)
(***************************************************************************)

\* the covariates with more than one distinct non-null value on the rows
\* of the task's frame that have a predictor and a dependent
SurvivingCovariates ==
    FilterSeq(config.covariate_columns,
              {c \in SeqToSet(config.covariate_columns) :
                  Cardinality({task_df.rows[i][c] : i \in CompleteRows} \ {NULL}) > 1})

\* C25: on the task's row subset every covariate with at most one distinct
\* non-null value is removed before fitting: the design matrix is the
\* predictor followed by exactly the surviving covariates in their order,
\* and the equation of the row is 'dependent ~ predictor + c1 + ...' over
\* those covariates.
C25_ConstantCovariatesLeftOut ==
    (TaskDone /\ task_out.kind = "row" /\ task_out.call.called)
        => /\ task_out.call.design = <<"p1">> \o SurvivingCovariates
           /\ task_out.row.equation = "d1 ~ p1 + " \o JoinPlus(SurvivingCovariates)

(***************************************************************************)
(* The batch loop of run_associations on its own: num_groups lazy result   *)
(* frames, numbered in generation order, are collected batch by batch.     *)
(* collected[i] tells whether frame i has been evaluated.  Up to MaxGroups *)
(* frames the frames of a batch are evaluated one at a time in any order;  *)
(* for the larger counts pl.collect_all(batch) is one step.                *)
(***************************************************************************)

\* task counts around the points where the batch size changes
LargeGroupCounts == {99, 100, 109, 110, 119, 250, 999, 1000, 1009, 1010, 1500}

BatchInit ==
    /\ \E num_groups \in (0..MaxGroups) \cup LargeGroupCounts :
            /\ config = [num_groups |-> num_groups]
            /\ tasks = [i \in 1..num_groups |-> i]
            /\ collected = [i \in 1..num_groups |-> FALSE]
    /\ pc = "batches"
    /\ batch_start = 0
    /\ all_results = <<>>
    /\ dispatched = 0
    /\ result_combined = None
    /\ data = EmptyFrame
    /\ task_df = EmptyFrame
    /\ task_out = NoOutcome
    /\ PipelineIdle

\* if not result_lazyframes: return pl.DataFrame()
BatchNoTasks ==
    /\ pc = "batches"
    /\ tasks = <<>>
    /\ pc' = "returned"
    /\ UNCHANGED <<batch_start, collected, all_results, dispatched, exc>>
    /\ UNCHANGED <<config, data, ipc_exists, atexit_handlers, log, cleanups,
                   tasks, result_combined, task_df, task_out>>

\* pl.collect_all(batch) evaluates one frame of the batch, which returns
\* its row or raises
BatchEvaluate(i) ==
    /\ pc = "batches"
    /\ Len(tasks) <= MaxGroups
    /\ i \in BatchOf(batch_start, Len(tasks))
    /\ ~collected[i]
    /\ \/ /\ collected' = [collected EXCEPT ![i] = TRUE]
          /\ UNCHANGED <<pc, exc>>
       \/ /\ collected' = [collected EXCEPT ![i] = TRUE]
          /\ pc' = "raised"
          /\ exc' = [type |-> "ValueError", msg |-> "task failed"]
    /\ dispatched' = dispatched + 1
    /\ UNCHANGED <<batch_start, all_results>>
    /\ UNCHANGED <<config, data, ipc_exists, atexit_handlers, log, cleanups,
                   tasks, result_combined, task_df, task_out>>

\* pl.collect_all(batch) evaluates every frame of the batch
BatchEvaluateAll ==
    /\ pc = "batches"
    /\ Len(tasks) > MaxGroups
    /\ ~(\A i \in BatchOf(batch_start, Len(tasks)) : collected[i])
    /\ LET batch == BatchOf(batch_start, Len(tasks))
       IN  /\ collected' = [i \in 1..Len(tasks) |-> collected[i] \/ i \in batch]
           /\ dispatched' = dispatched + Cardinality(batch)
    /\ UNCHANGED <<pc, exc, batch_start, all_results>>
    /\ UNCHANGED <<config, data, ipc_exists, atexit_handlers, log, cleanups,
                   tasks, result_combined, task_df, task_out>>

\* all_results.extend(results), and the loop moves to the next slice or
\* ends
BatchCollect ==
    /\ pc = "batches"
    /\ tasks # <<>>
    /\ \A i \in BatchOf(batch_start, Len(tasks)) : collected[i]
    /\ all_results' = all_results \o
            [k \in 1..Cardinality(BatchOf(batch_start, Len(tasks))) |->
                tasks[batch_start + k]]
    /\ IF batch_start + BatchSize(Len(tasks)) < Len(tasks)
       THEN batch_start' = batch_start + BatchSize(Len(tasks)) /\ pc' = pc
       ELSE batch_start' = batch_start /\ pc' = "concat"
    /\ UNCHANGED <<collected, dispatched, exc>>
    /\ UNCHANGED <<config, data, ipc_exists, atexit_handlers, log, cleanups,
                   tasks, result_combined, task_df, task_out>>

BatchNext ==
    \/ BatchNoTasks
    \/ \E i \in 1..Len(tasks) : BatchEvaluate(i)
    \/ BatchEvaluateAll
    \/ BatchCollect

BatchSpec == BatchInit /\ [][BatchNext]_vars

\* the frames evaluated so far
Evaluated == {i \in 1..Len(tasks) : collected[i]}

\* C26: the batch size is min(100, max(10, task_count div 10)), between 10
\* and 100; the batches are consecutive slices of the task list that hold
\* every task exactly once, in generation order; and no task of a later
\* batch is evaluated before the batch before it has been collected.
C26_BatchesInOrder ==
    LET n == Len(tasks)
        batch_size == BatchSize(n)
    IN  /\ MinBatch <= batch_size /\ batch_size <= MaxBatch
        /\ \/ n \div BatchDivisor <= MinBatch /\ batch_size = MinBatch
           \/ n \div BatchDivisor >= MaxBatch /\ batch_size = MaxBatch
           \/ batch_size = n \div BatchDivisor
        /\ all_results = [k \in 1..Len(all_results) |-> tasks[k]]
        /\ pc = "batches" =>
                /\ Len(all_results) = batch_start
                /\ batch_start % batch_size = 0
                /\ Evaluated \subseteq 1..(batch_start + batch_size)
                /\ 1..batch_start \subseteq Evaluated
        /\ pc = "concat" => all_results = tasks /\ Evaluated = 1..n

C26_Witness ==
    /\ pc = "concat"
    /\ Len(tasks) > 2 * BatchSize(Len(tasks))
    /\ Len(tasks) % BatchSize(Len(tasks)) # 0
    /\ BatchSize(Len(tasks)) > MinBatch
    /\ BatchSize(Len(tasks)) < MaxBatch

C26_WitnessInterleaved ==
    /\ pc = "batches"
    /\ batch_start > 0
    /\ collected[Len(tasks)]
    /\ ~collected[batch_start + 1]

\* the code of the sex the run is restricted to
SexCode(args) == IF args.male_only THEN args.male_code ELSE args.female_code

\* the role lists after the step are the lists before it without some of
\* their entries, the sex column among those
SexColumnLeftRoleLists ==
    /\ config.sex_col \notin RoleNames(config')
    /\ \A k \in 1..3 :
          RoleLists(config')[k] =
              FilterSeq(RoleLists(config)[k], SeqToSet(RoleLists(config')[k]))

\* C27: when the run is restricted to one sex, the dataset returned holds
\* exactly the input rows whose sex-indicator value is the code of that sex,
\* without the sex column, and the sex column is in none of the role lists,
\* whose other entries keep their order.
C27_SexRestriction ==
    [][(MasStep /\ pc' = "mas_checked" /\ (config.male_only \/ config.female_only))
         => /\ ~config'.returned_none
            /\ data' = Drop(FilterEq(data, config.sex_col, SexCode(config)),
                            {config.sex_col})
            /\ SexColumnLeftRoleLists]_vars

(***************************************************************************)
(* PheWAS sex filtering: phewas_check (mas.py).  The sex-specific codes    *)
(* that are columns of the input, male_codes_in_df and female_codes_in_df, *)
(* are inputs of the model.                                                *)
(***************************************************************************)

NullWhereEitherSex(df, sex_col, code, columns) ==
    [cols |-> df.cols,
     rows |-> [i \in 1..Len(df.rows) |->
                 [c \in SeqToSet(df.cols) |->
                     IF c \in columns THEN NULL ELSE df.rows[i][c]]]]

\* pl.when(pl.col(sex_col).eq(code)).then(None).otherwise(pl.col(column))
\* for every column of columns
NullWhere(df, sex_col, code, columns) ==
    [cols |-> df.cols,
     rows |-> [i \in 1..Len(df.rows) |->
                 [c \in SeqToSet(df.cols) |->
                     IF c \in columns /\ df.rows[i][sex_col] # NULL
                                      /\ df.rows[i][sex_col] = code
                     THEN NULL
                     ELSE df.rows[i][c]]]]

\* DataFrame.count() of one column: its non-null cells
Count(df, c) == Cardinality({i \in 1..Len(df.rows) : df.rows[i][c] # NULL})

\* the two with_columns of phewas_check, in their order
CodeMatched(df, args) ==
    NullWhere(NullWhere(df, args.sex_col, args.female_code,
                        SeqToSet(args.male_codes_in_df)),
              args.sex_col, args.male_code, SeqToSet(args.female_codes_in_df))

\* phewas_check(args): the frame returned and the messages logged
PhewasCheck(df, args) ==
    IF ~args.phewas /\ ~args.flipwas THEN [df |-> df, log |-> <<>>]
    ELSE IF args.sex_col \notin SeqToSet(args.col_names) THEN
        [df |-> df,
         log |-> <<"sex column " \o args.sex_col
                   \o " not found in input file. Sex-specific PheWAS filtering will not be performed.">>]
    ELSE IF args.male_codes_in_df = <<>> /\ args.female_codes_in_df = <<>> THEN
        [df |-> df,
         log |-> <<"No sex-specific PheCodes found in input file. Returning all phecodes.">>]
    ELSE
        LET sex_codes == args.male_codes_in_df \o args.female_codes_in_df
            code_matched == CodeMatched(df, args)
            changed == FilterSeq(sex_codes,
                          {c \in SeqToSet(sex_codes) :
                              Count(df, c) # Count(code_matched, c)})
        IN  [df |-> code_matched,
             log |-> IF changed # <<>>
                     THEN <<ToString(Len(changed))
                            \o " PheWAS sex-specific codes have mismatched sex values. See log file for details.">>
                     ELSE <<>>]

\* the sex-specific codes among the columns of the input
CodeOptions ==
    {<<<<>>, <<>>>>, <<<<"x">>, <<>>>>, <<<<>>, <<"x">>>>, <<<<"d">>, <<>>>>,
     <<<<>>, <<"d">>>>, <<<<"x">>, <<"d">>>>, <<<<"d">>, <<"x">>>>,
     <<<<"x", "d">>, <<>>>>, <<<<>>, <<"x", "d">>>>}

PhewasInit ==
    /\ \E x \in ColumnProfiles, d \in ColumnProfiles, sex \in SexProfiles :
            data = PrepFrame(x, <<0, 1, 2, NULL>>, d, sex)
    /\ \E codes \in CodeOptions, phewas \in BOOLEAN, flipwas \in BOOLEAN,
          sex_col \in {"sex", "gender"} :
            config = [predictors |-> <<"x">>, covariates |-> <<"c">>,
                      dependents |-> <<"d">>,
                      col_names |-> <<"x", "c", "d", "sex">>,
                      sex_col |-> sex_col, male_code |-> 1, female_code |-> 0,
                      phewas |-> phewas, flipwas |-> flipwas,
                      male_codes_in_df |-> codes[1],
                      female_codes_in_df |-> codes[2]]
    /\ pc = "phewas_check"
    /\ task_df = EmptyFrame
    /\ task_out = NoOutcome
    /\ PipelineIdle
    /\ RunIdle

\* df.mas.phewas_check(args)
MasPhewasCheck ==
    /\ pc = "phewas_check"
    /\ LET r == PhewasCheck(data, config)
       IN  /\ data' = r.df
           /\ log' = log \o r.log
    /\ pc' = "phewas_checked"
    /\ UNCHANGED config
    /\ UNCHANGED <<ipc_exists, atexit_handlers, cleanups, tasks, batch_start,
                   collected, all_results, result_combined, dispatched,
                   task_df, task_out, exc>>

PhewasNext == MasPhewasCheck

PhewasSpec == PhewasInit /\ [][PhewasNext]_vars

\* sex filtering is performed: the mode is on, the sex column is a column of
\* the input and some sex-specific code is too
SexFiltering ==
    /\ config.phewas \/ config.flipwas
    /\ config.sex_col \in SeqToSet(config.col_names)
    /\ config.male_codes_in_df \o config.female_codes_in_df # <<>>

\* the cell of row i and column c is as claimed, the columns male and female
\* being the ones filtered for each sex
CellFiltered(i, c, male, female) ==
    data'.rows[i][c] =
        IF \/ c \in male /\ data.rows[i][config.sex_col] = config.female_code
           \/ c \in female /\ data.rows[i][config.sex_col] = config.male_code
        THEN NULL
        ELSE data.rows[i][c]

\* C28: PheWAS sex filtering drops no row and fails on no mismatch: in each
\* male-specific dependent column the cells of the rows recorded as female
\* become null, in each female-specific dependent column those of the rows
\* recorded as male, and every other cell is unchanged; mismatches are only
\* reported.
C28_SexSpecificDependentsNulled ==
    [][(pc = "phewas_check" /\ pc' = "phewas_checked" /\ SexFiltering)
         => /\ Len(data'.rows) = Len(data.rows)
            /\ data'.cols = data.cols
            /\ exc' = None
            /\ \A i \in 1..Len(data.rows) : \A c \in SeqToSet(data.cols) :
                  CellFiltered(i, c,
                      SeqToSet(config.male_codes_in_df) \cap SeqToSet(config.dependents),
                      SeqToSet(config.female_codes_in_df) \cap SeqToSet(config.dependents))]_vars

\* C28 as the code has it: the columns filtered are all the columns of the
\* input named by a sex-specific code, whatever their role.
C28_SexSpecificColumnsNulled ==
    [][(pc = "phewas_check" /\ pc' = "phewas_checked")
         => /\ Len(data'.rows) = Len(data.rows)
            /\ data'.cols = data.cols
            /\ exc' = None
            /\ IF SexFiltering THEN
                  \A i \in 1..Len(data.rows) : \A c \in SeqToSet(data.cols) :
                      CellFiltered(i, c, SeqToSet(config.male_codes_in_df),
                                   SeqToSet(config.female_codes_in_df))
               ELSE data' = data
            /\ (data' # data) => Len(log') = Len(log) + 1]_vars

C28_Witness ==
    /\ pc = "phewas_checked"
    /\ config.male_codes_in_df = <<"x">>
    /\ config.female_codes_in_df = <<"d">>
    /\ config.sex_col = "sex"
    /\ config.phewas
    /\ Len(log) = 1
    /\ \E i, j \in 1..Len(data.rows) :
          /\ data.rows[i]["sex"] = 0 /\ data.rows[i]["x"] = NULL /\ data.rows[i]["d"] = 1
          /\ data.rows[j]["sex"] = 1 /\ data.rows[j]["d"] = NULL /\ data.rows[j]["x"] = 1

(***************************************************************************)
(* Properties of a run: the tasks do not see each other                    *)
(***************************************************************************)

\* C29: tasks are independent: each starts from a fresh copy of the
\* sentinel record, so the row of a task is the row its own pair gives on
\* the dataset under the configuration, in whatever order the tasks of the
\* batch are evaluated, and holds nothing another task wrote.
C29_TasksIndependent ==
    \A i \in 1..Len(collected) :
        collected[i].kind = "row"
            => \E solve \in SolverOutcomes(config.model) :
                  collected[i] = PerformAnalysis(data, tasks[i].predictor,
                                                 tasks[i].dependent, config, solve)

C29_Witness ==
    \E i, j \in 1..Len(collected) :
        /\ i < j
        /\ collected[i].kind = "row" /\ ~collected[i].call.called
        /\ collected[j].kind = "row" /\ collected[j].call.called
        /\ collected[j].row.failed_reason = "nan"
        /\ \E k \in 1..Len(collected) : k < j /\ collected[k].kind = "none"

(***************************************************************************)
(* Properties of one task: what it leaves of the shared state              *)
(***************************************************************************)

\* C30: executing a task never mutates shared state: the shared dataset
\* and the role lists of the configuration are the same after the task,
\* whether it prunes task-local constant covariates, is skipped or fails
\* in the solver; the pruned frame is the task's own.
C30_TaskLeavesSharedState ==
    [][(pc = "task" /\ pc' = "task_done")
         => /\ data' = data
            /\ config' = config
            /\ task_df' = ProjectTask(data, "p1", "d1", config)]_vars

C30_Witness ==
    /\ pc = "task_done"
    /\ task_out.kind = "row"
    /\ task_out.call.called
    /\ task_out.call.design = <<"p1">>
    /\ config.covariate_columns = <<"c1">>
    /\ "c1" \in SeqToSet(data.cols)
    /\ "c1" \in SeqToSet(task_df.cols)
===========================================================================
